---- MODULE Spec2Model ----
(***************************************************************************)
(* Nested-subtask core of task-master: hierarchical identifier codec,      *)
(* tree navigation and mutation (nested-subtask-utils.js), conversion of   *)
(* a root task into a subtask (add-subtask.js) and the migration driver    *)
(* with backup / restore (migration-utils.js).                             *)
(*                                                                         *)
(* JavaScript objects are records whose DOMAIN is the set of own keys, so  *)
(* "st.subtasks === undefined" is "subtasks" \notin DOMAIN st.  Strings    *)
(* that the code takes apart or builds (hierarchical identifiers) are      *)
(* sequences of one-character strings; opaque texts are TLA+ strings.      *)
(* A function that mutates its argument returns the mutated value.         *)
(***************************************************************************)
EXTENDS Integers, Sequences, FiniteSets, TLC

(***************************************************************************)
(* Bounds of the model.                                                    *)
(***************************************************************************)
\* largest sibling identifier an insert may assign
MaxId == 2
\* longest path handed to the mutation engine (= deepest subtask)
MaxDepth == 2
\* most subtasks in the in-memory document
MaxNodes == 4
\* latest millisecond the clock reaches
MaxClock == 1
\* longest list of migrations handed to runMigrations
MaxSteps == 2
\* most nodes (tasks and subtasks) of a tasks file addSubtask is called on
MaxFileNodes == 4

VARIABLES
    tasks,        \* in-memory document: the root tasks the mutation engine works on
    removedIds,   \* history: per root, identifiers removed from its direct child collection
    last,         \* the last operation: its arguments and what it returned or threw
    tasksFile,    \* .taskmaster/tasks/tasks.json (Missing when absent)
    configFile,   \* .taskmaster/config.json (Missing when absent)
    vscodeDir,    \* whether .vscode exists
    backups,      \* .taskmaster/backups: backup directory name -> files in it
    clock,        \* the millisecond new Date() last returned
    run,          \* the runMigrations call in progress
    snapshot      \* history: the live files as the last createBackup call found them

vars == <<tasks, removedIds, last, tasksFile, configFile, vscodeDir, backups, clock, run,
          snapshot>>
memVars == <<tasks, removedIds>>
fsVars == <<tasksFile, configFile, vscodeDir, backups, clock, run, snapshot>>

(***************************************************************************)
(* JavaScript values.                                                      *)
(***************************************************************************)
null == [null |-> TRUE]

Has(obj, key) == key \in DOMAIN obj

\* obj.key || dflt, for a text field: undefined and '' are falsy
OrText(obj, key, dflt) == IF Has(obj, key) /\ obj[key] # "" THEN obj[key] ELSE dflt

\* obj.key || dflt, for an array field: an array (even empty) is truthy
OrArray(obj, key, dflt) == IF Has(obj, key) THEN obj[key] ELSE dflt

\* !obj.subtasks is false exactly when the key holds an array
HasSubtasks(obj) == Has(obj, "subtasks")

Max(S) == CHOOSE m \in S : \A x \in S : x <= m

Range(s) == {s[i] : i \in 1..Len(s)}

Front(s) == SubSeq(s, 1, Len(s) - 1)

Last(s) == s[Len(s)]

IsPrefix(p, q) == Len(p) <= Len(q) /\ SubSeq(q, 1, Len(p)) = p

(***************************************************************************)
(* Error messages thrown by the code, under the spec's error kinds.        *)
(***************************************************************************)
MalformedIdentifier == "Invalid subtask ID format"
EmptyPath == "Path must be a non-empty array"
ContainerNotFound == "Cannot find parent container for path"
NodeNotFoundById == "Subtask with ID not found"
NodeNotFoundAtPath == "Subtask not found at path"

(***************************************************************************)
(* Identifier codec: parseSubtaskId / generateSubtaskId.                   *)
(***************************************************************************)
Digits == <<"0", "1", "2", "3", "4", "5", "6", "7", "8", "9">>

IsDigit(c) == c \in Range(Digits)

DigitValue(c) == (CHOOSE d \in 1..10 : Digits[d] = c) - 1

\* String(n) of a number, as in a template literal or Array.prototype.join
RECURSIVE NumToString(_)
NumToString(n) ==
    IF n < 0 THEN <<"-">> \o NumToString(-n)
    ELSE IF n < 10 THEN <<Digits[n + 1]>>
    ELSE NumToString(n \div 10) \o <<Digits[(n % 10) + 1]>>

\* a plausible slip: the segments joined with the default separator of join
RECURSIVE JoinDot_comma(_)
JoinDot_comma(path) ==
    IF Len(path) = 0 THEN <<>>
    ELSE IF Len(path) = 1 THEN NumToString(path[1])
    ELSE NumToString(path[1]) \o <<",">> \o JoinDot_comma(Tail(path))

\* path.join('.')
RECURSIVE JoinDot(_)
JoinDot(path) ==
    IF Len(path) = 0 THEN <<>>
    ELSE IF Len(path) = 1 THEN NumToString(path[1])
    ELSE NumToString(path[1]) \o <<".">> \o JoinDot(Tail(path))

\* subtaskId.split('.')
RECURSIVE SplitDot(_, _)
SplitDot(s, cur) ==
    IF Len(s) = 0 THEN <<cur>>
    ELSE IF Head(s) = "." THEN <<cur>> \o SplitDot(Tail(s), <<>>)
    ELSE SplitDot(Tail(s), Append(cur, Head(s)))

RECURSIVE SkipSpaces(_)
SkipSpaces(s) == IF Len(s) > 0 /\ Head(s) = " " THEN SkipSpaces(Tail(s)) ELSE s

RECURSIVE DigitPrefix(_)
DigitPrefix(s) ==
    IF Len(s) > 0 /\ IsDigit(Head(s)) THEN <<Head(s)>> \o DigitPrefix(Tail(s)) ELSE <<>>

RECURSIVE DigitsValue(_, _)
DigitsValue(ds, acc) ==
    IF Len(ds) = 0 THEN acc ELSE DigitsValue(Tail(ds), 10 * acc + DigitValue(Head(ds)))

\* parseInt(part, 10): leading blanks, an optional sign, then the longest run of
\* digits; NaN when there is no digit.  The rest of the text is ignored.
ParseInt(part) ==
    LET t == SkipSpaces(part)
        neg == Len(t) > 0 /\ Head(t) = "-"
        u == IF Len(t) > 0 /\ Head(t) \in {"-", "+"} THEN Tail(t) ELSE t
        ds == DigitPrefix(u)
    IN  IF Len(ds) = 0 THEN [nan |-> TRUE, n |-> 0]
        ELSE [nan |-> FALSE, n |-> IF neg THEN -DigitsValue(ds, 0) ELSE DigitsValue(ds, 0)]

parseSubtaskId(subtaskId) ==
    IF "." \notin Range(subtaskId)
    THEN [ok |-> FALSE, error |-> MalformedIdentifier]
    ELSE LET raw == SplitDot(subtaskId, <<>>)
             parts == [i \in 1..Len(raw) |-> ParseInt(raw[i])]
         IN  IF \E i \in 1..Len(parts) : parts[i].nan \/ parts[i].n <= 0
             THEN [ok |-> FALSE, error |-> MalformedIdentifier]
             ELSE [ok |-> TRUE,
                   parentId |-> parts[1].n,
                   path |-> [i \in 1..(Len(parts) - 1) |-> parts[i + 1].n]]

\* a plausible slip: the identifier built without the root task's identifier
generateSubtaskId_noParent(parentId, path) ==
    IF Len(path) = 0
    THEN [ok |-> FALSE, error |-> EmptyPath]
    ELSE [ok |-> TRUE, value |-> JoinDot(path)]

\* a plausible slip: no test of the path's length
generateSubtaskId_noLengthTest(parentId, path) ==
    [ok |-> TRUE, value |-> NumToString(parentId) \o <<".">> \o JoinDot(path)]

generateSubtaskId(parentId, path) ==
    IF Len(path) = 0
    THEN [ok |-> FALSE, error |-> EmptyPath]
    ELSE [ok |-> TRUE, value |-> NumToString(parentId) \o <<".">> \o JoinDot(path)]

(***************************************************************************)
(* Tree navigator: findNestedSubtask / findSubtaskParent.                  *)
(***************************************************************************)
\* index of the first element with this id (Array.prototype.find / findIndex), 0 if none
IndexOfId(subtasks, id) ==
    IF \E i \in 1..Len(subtasks) : subtasks[i].id = id
    THEN CHOOSE i \in 1..Len(subtasks) :
            /\ subtasks[i].id = id
            /\ \A j \in 1..(i - 1) : subtasks[j].id # id
    ELSE 0

\* a plausible slip: the walk stops at the first level
findNestedSubtask_noDescent(parentTask, path) ==
    IF ~HasSubtasks(parentTask) \/ Len(path) # 1 THEN null
    ELSE LET i == IndexOfId(parentTask.subtasks, Head(path))
         IN  IF i = 0 THEN null ELSE parentTask.subtasks[i]

RECURSIVE findNestedSubtask(_, _)
findNestedSubtask(parentTask, path) ==
    IF ~HasSubtasks(parentTask) \/ Len(path) = 0 THEN null
    ELSE LET i == IndexOfId(parentTask.subtasks, Head(path))
         IN  IF i = 0 THEN null
             ELSE IF Len(path) = 1 THEN parentTask.subtasks[i]
             ELSE findNestedSubtask(parentTask.subtasks[i], Tail(path))

\* The object findNestedSubtask(parentTask, path) returned, replaced by node: what
\* an assignment through the returned reference does to the tree.
RECURSIVE ReplaceNode(_, _, _)
ReplaceNode(parentTask, path, node) ==
    LET i == IndexOfId(parentTask.subtasks, Head(path))
    IN  [parentTask EXCEPT !.subtasks[i] =
            IF Len(path) = 1 THEN node ELSE ReplaceNode(@, Tail(path), node)]

\* Returns the container as the path to its owner (<<>> is the root task itself)
\* together with the tree, in which the owner may have been given an empty child
\* collection.
findSubtaskParent(parentTask, path) ==
    LET Found(parentPath, parentSubtask) ==
            IF parentSubtask = null
            THEN [found |-> FALSE, task |-> parentTask]
            ELSE [found |-> TRUE,
                  task |-> IF HasSubtasks(parentSubtask) THEN parentTask
                           ELSE ReplaceNode(parentTask, parentPath,
                                            parentSubtask @@ [subtasks |-> <<>>]),
                  container |-> parentPath]
    IN  IF ~HasSubtasks(parentTask) \/ Len(path) = 0
        THEN [found |-> FALSE, task |-> parentTask]
        ELSE IF Len(path) = 1
        THEN [found |-> TRUE, task |-> parentTask, container |-> <<>>]
        ELSE Found(Front(path), findNestedSubtask(parentTask, Front(path)))

\* parentContainer.subtasks
ContainerSubtasks(task, container) ==
    IF Len(container) = 0 THEN task.subtasks
    ELSE findNestedSubtask(task, container).subtasks

\* the tree after parentContainer.subtasks was changed in place to subtasks
WithContainerSubtasks(task, container, subtasks) ==
    IF Len(container) = 0 THEN [task EXCEPT !.subtasks = subtasks]
    ELSE ReplaceNode(task, container,
                     [findNestedSubtask(task, container) EXCEPT !.subtasks = subtasks])

(***************************************************************************)
(* Mutation engine: getNextSubtaskId, addNestedSubtask,                    *)
(* removeNestedSubtask, updateNestedSubtask, migrateLegacySubtasks.        *)
(***************************************************************************)
\* a plausible slip: the next identifier taken from the number of siblings
getNextSubtaskId_byLength(subtasks) == Len(subtasks) + 1

\* a plausible slip: the smallest identifier no sibling holds
getNextSubtaskId_firstFree(subtasks) ==
    CHOOSE n \in 1..(Len(subtasks) + 1) :
        /\ \A i \in 1..Len(subtasks) : subtasks[i].id # n
        /\ \A m \in 1..(n - 1) : \E i \in 1..Len(subtasks) : subtasks[i].id = m

getNextSubtaskId(subtasks) ==
    IF Len(subtasks) = 0 THEN 1
    ELSE Max({subtasks[i].id : i \in 1..Len(subtasks)}) + 1

\* a plausible slip: the new node put in front of its siblings (unshift for push)
addNestedSubtask_unshift(parentTask, path, subtaskData) ==
    LET Pushed(tree, container, siblings, newSubtask) ==
            [ok |-> TRUE,
             task |-> WithContainerSubtasks(tree, container, <<newSubtask>> \o siblings),
             subtask |-> newSubtask,
             fullId |-> generateSubtaskId(parentTask.id,
                                          Append(Front(path), newSubtask.id)).value]
        Built(tree, container, siblings) ==
            Pushed(tree, container, siblings,
                   [id |-> getNextSubtaskId(siblings),
                    title |-> subtaskData.title,
                    description |-> OrText(subtaskData, "description", ""),
                    details |-> OrText(subtaskData, "details", ""),
                    status |-> OrText(subtaskData, "status", "pending"),
                    dependencies |-> OrArray(subtaskData, "dependencies", <<>>),
                    subtasks |-> <<>>])
        Found(parentContainer) ==
            IF ~parentContainer.found
            THEN [ok |-> FALSE, error |-> ContainerNotFound, task |-> parentContainer.task]
            ELSE Built(parentContainer.task, parentContainer.container,
                       ContainerSubtasks(parentContainer.task, parentContainer.container))
    IN  Found(findSubtaskParent(parentTask, path))

\* a plausible slip: every new node starts as "pending", whatever the data says
addNestedSubtask_alwaysPending(parentTask, path, subtaskData) ==
    LET Pushed(tree, container, siblings, newSubtask) ==
            [ok |-> TRUE,
             task |-> WithContainerSubtasks(tree, container, Append(siblings, newSubtask)),
             subtask |-> newSubtask,
             fullId |-> generateSubtaskId(parentTask.id,
                                          Append(Front(path), newSubtask.id)).value]
        Built(tree, container, siblings) ==
            Pushed(tree, container, siblings,
                   [id |-> getNextSubtaskId(siblings),
                    title |-> subtaskData.title,
                    description |-> OrText(subtaskData, "description", ""),
                    details |-> OrText(subtaskData, "details", ""),
                    status |-> "pending",
                    dependencies |-> OrArray(subtaskData, "dependencies", <<>>),
                    subtasks |-> <<>>])
        Found(parentContainer) ==
            IF ~parentContainer.found
            THEN [ok |-> FALSE, error |-> ContainerNotFound, task |-> parentContainer.task]
            ELSE Built(parentContainer.task, parentContainer.container,
                       ContainerSubtasks(parentContainer.task, parentContainer.container))
    IN  Found(findSubtaskParent(parentTask, path))

\* The task component is the tree as the call leaves it, also when it throws.
\* a plausible slip: the new subtask is built without its child collection
addNestedSubtask_noCollection(parentTask, path, subtaskData) ==
    LET Pushed(tree, container, siblings, newSubtask) ==
            [ok |-> TRUE,
             task |-> WithContainerSubtasks(tree, container, Append(siblings, newSubtask)),
             subtask |-> newSubtask,
             fullId |-> generateSubtaskId(parentTask.id,
                                          Append(Front(path), newSubtask.id)).value]
        Built(tree, container, siblings) ==
            Pushed(tree, container, siblings,
                   [id |-> getNextSubtaskId(siblings),
                    title |-> subtaskData.title,
                    description |-> OrText(subtaskData, "description", ""),
                    details |-> OrText(subtaskData, "details", ""),
                    status |-> OrText(subtaskData, "status", "pending"),
                    dependencies |-> OrArray(subtaskData, "dependencies", <<>>)])
        Found(parentContainer) ==
            IF ~parentContainer.found
            THEN [ok |-> FALSE, error |-> ContainerNotFound, task |-> parentContainer.task]
            ELSE Built(parentContainer.task, parentContainer.container,
                       ContainerSubtasks(parentContainer.task, parentContainer.container))
    IN  Found(findSubtaskParent(parentTask, path))

addNestedSubtask(parentTask, path, subtaskData) ==
    LET Pushed(tree, container, siblings, newSubtask) ==
            [ok |-> TRUE,
             task |-> WithContainerSubtasks(tree, container, Append(siblings, newSubtask)),
             subtask |-> newSubtask,
             fullId |-> generateSubtaskId(parentTask.id,
                                          Append(Front(path), newSubtask.id)).value]
        Built(tree, container, siblings) ==
            Pushed(tree, container, siblings,
                   [id |-> getNextSubtaskId(siblings),
                    title |-> subtaskData.title,
                    description |-> OrText(subtaskData, "description", ""),
                    details |-> OrText(subtaskData, "details", ""),
                    status |-> OrText(subtaskData, "status", "pending"),
                    dependencies |-> OrArray(subtaskData, "dependencies", <<>>),
                    subtasks |-> <<>>])
        Found(parentContainer) ==
            IF ~parentContainer.found
            THEN [ok |-> FALSE, error |-> ContainerNotFound, task |-> parentContainer.task]
            ELSE Built(parentContainer.task, parentContainer.container,
                       ContainerSubtasks(parentContainer.task, parentContainer.container))
    IN  Found(findSubtaskParent(parentTask, path))

\* a plausible slip: splice(index) without a count drops the rest of the array
Splice_toEnd(subtasks, index) == SubSeq(subtasks, 1, index - 1)

\* subtasks.splice(index, 1)
Splice(subtasks, index) ==
    SubSeq(subtasks, 1, index - 1) \o SubSeq(subtasks, index + 1, Len(subtasks))

\* a plausible slip: a sibling that is not there is skipped without an error
removeNestedSubtask_silent(parentTask, path) ==
    LET Spliced(tree, container, siblings, subtaskIndex) ==
            IF subtaskIndex = 0
            THEN [ok |-> TRUE, task |-> tree, removed |-> null]
            ELSE [ok |-> TRUE,
                  task |-> WithContainerSubtasks(tree, container,
                                                 Splice(siblings, subtaskIndex)),
                  removed |-> siblings[subtaskIndex]]
        Listed(tree, container, siblings) ==
            Spliced(tree, container, siblings, IndexOfId(siblings, Last(path)))
        Found(parentContainer) ==
            IF ~parentContainer.found
            THEN [ok |-> FALSE, error |-> ContainerNotFound, task |-> parentContainer.task]
            ELSE Listed(parentContainer.task, parentContainer.container,
                        ContainerSubtasks(parentContainer.task, parentContainer.container))
    IN  Found(findSubtaskParent(parentTask, path))

removeNestedSubtask(parentTask, path) ==
    LET Spliced(tree, container, siblings, subtaskIndex) ==
            IF subtaskIndex = 0
            THEN [ok |-> FALSE, error |-> NodeNotFoundById, task |-> tree]
            ELSE [ok |-> TRUE,
                  task |-> WithContainerSubtasks(tree, container,
                                                 Splice(siblings, subtaskIndex)),
                  removed |-> siblings[subtaskIndex]]
        Listed(tree, container, siblings) ==
            Spliced(tree, container, siblings, IndexOfId(siblings, Last(path)))
        Found(parentContainer) ==
            IF ~parentContainer.found
            THEN [ok |-> FALSE, error |-> ContainerNotFound, task |-> parentContainer.task]
            ELSE Listed(parentContainer.task, parentContainer.container,
                        ContainerSubtasks(parentContainer.task, parentContainer.container))
    IN  Found(findSubtaskParent(parentTask, path))

\* a plausible slip: every key of updates is assigned, the protected ones too
AssignedKeys_all(updates) == DOMAIN updates

\* the keys of updates that the forEach assigns
AssignedKeys(updates) == DOMAIN updates \ {"id", "subtasks"}

updateNestedSubtask(parentTask, path, updates) ==
    LET Applied(updated) ==
            [ok |-> TRUE,
             task |-> ReplaceNode(parentTask, path, updated),
             subtask |-> updated]
        Found(subtask) ==
            IF subtask = null
            THEN [ok |-> FALSE, error |-> NodeNotFoundAtPath, task |-> parentTask]
            ELSE Applied([k \in DOMAIN subtask \cup AssignedKeys(updates) |->
                             IF k \in AssignedKeys(updates) THEN updates[k] ELSE subtask[k]])
    IN  Found(findNestedSubtask(parentTask, path))

\* a node without its child collection
OwnFields(node) == [k \in DOMAIN node \ {"subtasks"} |-> node[k]]

\* a plausible slip: every child is given a fresh empty collection, migrated or not
migrateLegacySubtasks_noCheck(task) ==
    IF ~HasSubtasks(task) THEN task
    ELSE [task EXCEPT !.subtasks =
             [i \in 1..Len(@) |-> [subtasks |-> <<>>] @@ OwnFields(@[i])]]

migrateLegacySubtasks(task) ==
    IF ~HasSubtasks(task) THEN task
    ELSE LET hasNestedFormat == \E i \in 1..Len(task.subtasks) : HasSubtasks(task.subtasks[i])
         IN  IF hasNestedFormat THEN task
             ELSE [task EXCEPT !.subtasks =
                        [i \in 1..Len(@) |-> [subtasks |-> <<>>] @@ @[i]]]

(***************************************************************************)
(* Flattening: getAllNestedSubtasks.  An entry is the subtask's own fields *)
(* with fullId, path and depth laid over them.                             *)
(***************************************************************************)
\* a plausible slip: the traversal does not descend into nested subtasks
traverse_shallow(subtasks, currentPath, parentTaskId, includeParentId) ==
    [i \in 1..Len(subtasks) |->
        [fullId |-> IF includeParentId
                    THEN generateSubtaskId(parentTaskId,
                                           Append(currentPath, subtasks[i].id)).value
                    ELSE JoinDot(Append(currentPath, subtasks[i].id)),
         path |-> Append(currentPath, subtasks[i].id),
         depth |-> Len(currentPath) + 1] @@ subtasks[i]]

\* the entries traverse pushes onto result, in the order it pushes them
RECURSIVE traverse(_, _, _, _)
traverse(subtasks, currentPath, parentTaskId, includeParentId) ==
    IF Len(subtasks) = 0 THEN <<>>
    ELSE LET subtask == Head(subtasks)
             fullPath == Append(currentPath, subtask.id)
             entry == [fullId |-> IF includeParentId
                                  THEN generateSubtaskId(parentTaskId, fullPath).value
                                  ELSE JoinDot(fullPath),
                       path |-> fullPath,
                       depth |-> Len(fullPath)] @@ subtask
             nested == IF HasSubtasks(subtask) /\ Len(subtask.subtasks) > 0
                       THEN traverse(subtask.subtasks, fullPath, parentTaskId,
                                     includeParentId)
                       ELSE <<>>
         IN  <<entry>> \o nested
                \o traverse(Tail(subtasks), currentPath, parentTaskId, includeParentId)

getAllNestedSubtasks(parentTask, includeParentId) ==
    IF HasSubtasks(parentTask)
    THEN traverse(parentTask.subtasks, <<>>, parentTask.id, includeParentId)
    ELSE <<>>

(***************************************************************************)
(* Measures of a tree.                                                     *)
(***************************************************************************)
RECURSIVE CountSubtasks(_)
RECURSIVE CountAll(_)
CountAll(subtasks) ==
    IF Len(subtasks) = 0 THEN 0
    ELSE 1 + CountSubtasks(Head(subtasks)) + CountAll(Tail(subtasks))
CountSubtasks(node) == IF HasSubtasks(node) THEN CountAll(node.subtasks) ELSE 0

RECURSIVE CountDocument(_)
CountDocument(roots) ==
    IF Len(roots) = 0 THEN 0 ELSE CountSubtasks(Head(roots)) + CountDocument(Tail(roots))

\* every path over the identifiers 1..MaxId of length 0..n
RECURSIVE PathsUpTo(_)
PathsUpTo(n) ==
    IF n = 0 THEN {<<>>}
    ELSE LET shorter == PathsUpTo(n - 1)
         IN  shorter \cup {Append(p, i) : p \in {q \in shorter : Len(q) = n - 1},
                                          i \in 1..MaxId}

\* paths handed to remove and update: they may or may not resolve
PathArgs == PathsUpTo(MaxDepth) \ {<<>>}

\* paths handed to insert: the path of the owner, then a last segment that stands
\* for the identifier to come (add-subtask.js passes 0, the tests the expected one)
InsertPathArgs == {Append(p, k) : p \in PathsUpTo(MaxDepth - 1), k \in {0, 1}}

(***************************************************************************)
(* The in-memory document and the calls made on it.                        *)
(***************************************************************************)
Missing == [missing |-> TRUE]

IdleRun == [pc |-> "idle"]

\* the test suite's sample task: 1.1 "Level 1 Subtask" holding 1.1.1, and 1.2
SampleTask ==
    [id |-> 1, title |-> "Main Task", description |-> "A task for testing nested subtasks",
     status |-> "pending", dependencies |-> <<>>, priority |-> "medium",
     details |-> "Test task details", testStrategy |-> "Test strategy",
     subtasks |-> <<
        [id |-> 1, title |-> "Level 1 Subtask", description |-> "First level subtask",
         status |-> "pending", dependencies |-> <<>>,
         subtasks |-> <<[id |-> 1, title |-> "Level 2 Subtask",
                         description |-> "Second level subtask",
                         status |-> "pending", dependencies |-> <<>>,
                         subtasks |-> <<>>]>>],
        [id |-> 2, title |-> "Another Level 1 Subtask",
         description |-> "Another first level subtask",
         status |-> "done", dependencies |-> <<>>, subtasks |-> <<>>]>>]

\* a subtask written before nested subtasks existed: no subtasks key
LegacySubtask(id) == [id |-> id, title |-> "Legacy", status |-> "pending"]

EmptyTask(id) ==
    [id |-> id, title |-> "Task", description |-> "", status |-> "pending",
     dependencies |-> <<>>, subtasks |-> <<>>]

\* a root task that never had a subtasks key
BareTask(id) ==
    [id |-> id, title |-> "Task", description |-> "", status |-> "pending",
     dependencies |-> <<>>]

\* the sample; a document whose first task is all legacy and whose second never had
\* a child collection; a task mixing migrated and legacy children
InitialDocuments ==
    { <<SampleTask>>,
      <<[EmptyTask(1) EXCEPT !.subtasks = <<LegacySubtask(1), LegacySubtask(2)>>],
        BareTask(2)>>,
      <<[EmptyTask(1) EXCEPT !.subtasks =
            <<[subtasks |-> <<>>] @@ LegacySubtask(2), LegacySubtask(1)>>]>> }

\* subtaskData handed to insert: with and without the optional fields
Payloads ==
    { [title |-> "A"],
      [title |-> "A", description |-> "d", status |-> "done"] }

\* updates handed to update: it names the protected keys too
Patches ==
    { [id |-> 9, subtasks |-> <<>>, description |-> "d", status |-> "done"] }

MemInit ==
    /\ tasks \in InitialDocuments
    /\ removedIds = [r \in 1..Len(tasks) |-> {}]

FsIdle ==
    /\ tasksFile = Missing
    /\ configFile = Missing
    /\ vscodeDir = FALSE
    /\ backups = [t \in 0..MaxClock |-> Missing]
    /\ clock = 0
    /\ run = IdleRun
    /\ snapshot = Missing

Init ==
    /\ MemInit
    /\ last = [op |-> "init"]
    /\ FsIdle

Insert(r, path, subtaskData) ==
    LET Returns(res) ==
            /\ res.ok => res.subtask.id <= MaxId
            /\ tasks' = [tasks EXCEPT ![r] = res.task]
            /\ CountDocument(tasks') <= MaxNodes
            /\ last' = IF res.ok
                       THEN [op |-> "insert", root |-> r, path |-> path,
                             data |-> subtaskData, ok |-> TRUE,
                             subtask |-> res.subtask, fullId |-> res.fullId]
                       ELSE [op |-> "insert", root |-> r, path |-> path, ok |-> FALSE,
                             error |-> res.error]
            /\ UNCHANGED removedIds
    IN  Returns(addNestedSubtask(tasks[r], path, subtaskData))

Remove(r, path) ==
    LET Returns(res) ==
            /\ tasks' = [tasks EXCEPT ![r] = res.task]
            /\ last' = IF res.ok
                       THEN [op |-> "remove", root |-> r, path |-> path,
                             ok |-> TRUE, removed |-> res.removed]
                       ELSE [op |-> "remove", root |-> r, path |-> path, ok |-> FALSE,
                             error |-> res.error]
            /\ removedIds' = IF res.ok /\ Len(path) = 1
                             THEN [removedIds EXCEPT ![r] = @ \cup {Last(path)}]
                             ELSE removedIds
    IN  Returns(removeNestedSubtask(tasks[r], path))

Update(r, path, updates) ==
    LET Returns(res) ==
            /\ tasks' = [tasks EXCEPT ![r] = res.task]
            /\ last' = IF res.ok
                       THEN [op |-> "update", root |-> r, path |-> path,
                             updates |-> updates, ok |-> TRUE, subtask |-> res.subtask]
                       ELSE [op |-> "update", root |-> r, path |-> path, ok |-> FALSE,
                             error |-> res.error]
            /\ UNCHANGED removedIds
    IN  Returns(updateNestedSubtask(tasks[r], path, updates))

Migrate(r) ==
    /\ tasks' = [tasks EXCEPT ![r] = migrateLegacySubtasks(tasks[r])]
    /\ last' = [op |-> "migrate", root |-> r, ok |-> TRUE]
    /\ UNCHANGED removedIds

\* getAllNestedSubtasks reads the tree and leaves it as it is
Flatten(r, includeParentId) ==
    /\ last' = [op |-> "flatten", root |-> r, ok |-> TRUE,
                includeParentId |-> includeParentId,
                result |-> getAllNestedSubtasks(tasks[r], includeParentId)]
    /\ UNCHANGED memVars

InsertCall ==
    /\ \E r \in 1..Len(tasks), path \in InsertPathArgs, subtaskData \in Payloads :
            Insert(r, path, subtaskData)
    /\ UNCHANGED fsVars

RemoveCall ==
    /\ \E r \in 1..Len(tasks), path \in PathArgs : Remove(r, path)
    /\ UNCHANGED fsVars

UpdateCall ==
    /\ \E r \in 1..Len(tasks), path \in PathArgs, updates \in Patches :
            Update(r, path, updates)
    /\ UNCHANGED fsVars

MigrateCall ==
    /\ \E r \in 1..Len(tasks) : Migrate(r)
    /\ UNCHANGED fsVars

FlattenCall ==
    /\ \E r \in 1..Len(tasks), includeParentId \in BOOLEAN : Flatten(r, includeParentId)
    /\ UNCHANGED fsVars

Next == InsertCall \/ RemoveCall \/ UpdateCall \/ MigrateCall \/ FlattenCall

Spec == Init /\ [][Next]_vars

(***************************************************************************)
(* MigrationManager (migration-utils.js).  The files are tasksFile and     *)
(* configFile; backups maps the millisecond in a backup directory's name   *)
(* to the files in it, Missing while there is no such directory.  A file   *)
(* operation that can throw takes the place where it throws as failAt.     *)
(***************************************************************************)
EmptyDir == [tasks |-> Missing, config |-> Missing]

Features == <<"nested-subtasks", "vscode-integration", "augment-integration">>

\* data.meta once "if (!data.meta) data.meta = {}" has run
MetaOf(data) == IF Has(data, "meta") THEN data.meta ELSE <<>>

\* obj.key = value, adding the key when it is new
Assign(obj, key, value) == (key :> value) @@ obj

IsLegacyTask(task) ==
    /\ HasSubtasks(task)
    /\ Len(task.subtasks) > 0
    /\ \E i \in 1..Len(task.subtasks) : ~HasSubtasks(task.subtasks[i])

\* the migrations checkMigrationNeeded lists, in its order; <<>> when the tasks
\* file is absent or has no tasks
checkMigrationNeeded ==
    IF tasksFile = Missing \/ ~Has(tasksFile, "tasks") THEN <<>>
    ELSE LET hasLegacySubtasks ==
                 \E i \in 1..Len(tasksFile.tasks) : IsLegacyTask(tasksFile.tasks[i])
             hasVersionInfo == Has(MetaOf(tasksFile), "version")
         IN  (IF hasLegacySubtasks THEN <<"nested-subtasks">> ELSE <<>>)
                \o (IF ~hasVersionInfo THEN <<"version-metadata">> ELSE <<>>)
                \o (IF ~vscodeDir THEN <<"vscode-integration">> ELSE <<>>)

\* a plausible slip: a copy that fails is swallowed and the path returned anyway
createBackup_swallow(now, failAt) ==
    LET dir0 == IF backups[now] = Missing THEN EmptyDir ELSE backups[now]
        dir1 == IF tasksFile # Missing /\ failAt # "tasks"
                THEN [dir0 EXCEPT !.tasks = tasksFile] ELSE dir0
        dir2 == IF configFile # Missing /\ failAt # "config"
                THEN [dir1 EXCEPT !.config = configFile] ELSE dir1
    IN  [ok |-> TRUE, backupPath |-> now, backups |-> [backups EXCEPT ![now] = dir2]]

\* createBackup with the timestamp now: the directory is made unless it exists,
\* then each live file that exists is copied over whatever the directory holds.
createBackup(now, failAt) ==
    LET dir0 == IF backups[now] = Missing THEN EmptyDir ELSE backups[now]
        dir1 == IF tasksFile # Missing THEN [dir0 EXCEPT !.tasks = tasksFile] ELSE dir0
        dir2 == IF configFile # Missing THEN [dir1 EXCEPT !.config = configFile] ELSE dir1
    IN  CASE failAt = "mkdir" -> [ok |-> FALSE, backups |-> backups]
          [] failAt = "tasks" -> [ok |-> FALSE, backups |-> [backups EXCEPT ![now] = dir0]]
          [] failAt = "config" -> [ok |-> FALSE, backups |-> [backups EXCEPT ![now] = dir1]]
          [] OTHER -> [ok |-> TRUE, backupPath |-> now,
                       backups |-> [backups EXCEPT ![now] = dir2]]

\* the places where createBackup can throw now
BackupFailures ==
    {"none", "mkdir"} \cup (IF tasksFile # Missing THEN {"tasks"} ELSE {})
                      \cup (IF configFile # Missing THEN {"config"} ELSE {})

\* a plausible slip: only the configuration is copied back
restoreFromBackup_configOnly(backupPath, failAt) ==
    IF backups[backupPath] = Missing
    THEN [ok |-> FALSE, tasksFile |-> tasksFile, configFile |-> configFile]
    ELSE LET dir == backups[backupPath]
         IN  [ok |-> failAt = "none",
              tasksFile |-> tasksFile,
              configFile |-> IF dir.config # Missing /\ failAt = "none"
                             THEN dir.config ELSE configFile]

restoreFromBackup(backupPath, failAt) ==
    IF backups[backupPath] = Missing
    THEN [ok |-> FALSE, tasksFile |-> tasksFile, configFile |-> configFile]
    ELSE LET dir == backups[backupPath]
             tasks1 == IF dir.tasks # Missing THEN dir.tasks ELSE tasksFile
             config1 == IF dir.config # Missing THEN dir.config ELSE configFile
         IN  CASE failAt = "tasks" ->
                    [ok |-> FALSE, tasksFile |-> tasksFile, configFile |-> configFile]
               [] failAt = "config" ->
                    [ok |-> FALSE, tasksFile |-> tasks1, configFile |-> configFile]
               [] OTHER -> [ok |-> TRUE, tasksFile |-> tasks1, configFile |-> config1]

\* the places where restoreFromBackup(backupPath) can throw now
RestoreFailures(backupPath) ==
    {"none"} \cup (IF backups[backupPath] # Missing /\ backups[backupPath].tasks # Missing
                   THEN {"tasks"} ELSE {})
             \cup (IF backups[backupPath] # Missing /\ backups[backupPath].config # Missing
                   THEN {"config"} ELSE {})

\* data is what readJSON returned: Missing stands for null
migrateToNestedSubtasks(data, now) ==
    IF data = Missing \/ ~Has(data, "tasks")
    THEN [ok |-> FALSE, data |-> data]
    ELSE LET migrated == [i \in 1..Len(data.tasks) |->
                             IF IsLegacyTask(data.tasks[i])
                             THEN migrateLegacySubtasks(data.tasks[i])
                             ELSE data.tasks[i]]
             migrationCount == Cardinality({i \in 1..Len(data.tasks) :
                                               IsLegacyTask(data.tasks[i])})
             meta == Assign(Assign(MetaOf(data), "nestedSubtasksSupport", TRUE),
                            "lastMigration", now)
         IN  [ok |-> TRUE,
              data |-> Assign(Assign(data, "tasks", migrated), "meta", meta),
              migratedTasks |-> migrationCount]

addVersionMetadata(data, now) ==
    IF data = Missing
    THEN [ok |-> FALSE, data |-> data]
    ELSE LET m0 == MetaOf(data)
             m1 == Assign(Assign(Assign(m0, "version", "2.0.0"), "schemaVersion", "2.0"),
                          "features", Features)
             m2 == IF Has(m1, "createdAt") THEN m1 ELSE Assign(m1, "createdAt", now)
             m3 == Assign(m2, "updatedAt", now)
         IN  [ok |-> TRUE, data |-> Assign(data, "meta", m3)]

\* results[migration] = result: a new key goes last, a known key keeps its place
SetResult(results, migration, success) ==
    IF \E i \in 1..Len(results) : results[i].name = migration
    THEN [i \in 1..Len(results) |->
             IF results[i].name = migration
             THEN [name |-> migration, success |-> success] ELSE results[i]]
    ELSE Append(results, [name |-> migration, success |-> success])

\* Object.keys(results).filter(key => results[key].success = wanted)
KeysWhere(results, wanted) ==
    LET F[i \in 0..Len(results)] ==
            IF i = 0 THEN <<>>
            ELSE IF results[i].success = wanted THEN Append(F[i - 1], results[i].name)
            ELSE F[i - 1]
    IN  F[Len(results)]

(***************************************************************************)
(* The project on disk and the calls made on a MigrationManager.           *)
(***************************************************************************)
LegacyTask(id) ==
    [EmptyTask(id) EXCEPT !.subtasks = <<LegacySubtask(1), LegacySubtask(2)>>]

MixedTask(id) ==
    [EmptyTask(id) EXCEPT !.subtasks =
        <<[subtasks |-> <<>>] @@ LegacySubtask(1), LegacySubtask(2)>>]

LegacyFile == [tasks |-> <<LegacyTask(1), EmptyTask(2)>>]

MixedFile ==
    [meta |-> [projectName |-> "p", version |-> "1.0.0"], tasks |-> <<MixedTask(1)>>]

CurrentFile ==
    [meta |-> [projectName |-> "p", version |-> "2.0.0", nestedSubtasksSupport |-> TRUE],
     tasks |-> <<SampleTask>>]

NoTasksFile == [meta |-> [projectName |-> "p"]]

ConfigFile == [projectName |-> "p"]

\* projects on disk: never migrated; holding a task that mixes children with and
\* without a child collection; up to date but for .vscode; up to date; with a
\* tasks file that has no tasks key; empty
Projects ==
    { [tasksFile |-> LegacyFile, configFile |-> ConfigFile, vscodeDir |-> FALSE],
      [tasksFile |-> MixedFile, configFile |-> ConfigFile, vscodeDir |-> TRUE],
      [tasksFile |-> CurrentFile, configFile |-> Missing, vscodeDir |-> FALSE],
      [tasksFile |-> CurrentFile, configFile |-> ConfigFile, vscodeDir |-> TRUE],
      [tasksFile |-> NoTasksFile, configFile |-> ConfigFile, vscodeDir |-> FALSE],
      [tasksFile |-> Missing, configFile |-> Missing, vscodeDir |-> FALSE] }

MigrationNames == {"nested-subtasks", "version-metadata", "vscode-integration", "bogus"}

\* every list of at most n migration names
RECURSIVE ListsUpTo(_)
ListsUpTo(n) ==
    IF n = 0 THEN {<<>>}
    ELSE LET shorter == ListsUpTo(n - 1)
         IN  shorter \cup {Append(l, m) : l \in {k \in shorter : Len(k) = n - 1},
                                          m \in MigrationNames}

\* the migrations argument of runMigrations: a list, or null for "what is needed"
RunArgs == {[list |-> l] : l \in ListsUpTo(MaxSteps)} \cup {null}

\* the milliseconds a call to new Date() may return now
Now == {t \in {clock, clock + 1} : t <= MaxClock}

MigInit ==
    /\ tasks = <<EmptyTask(1)>>
    /\ removedIds = [r \in 1..Len(tasks) |-> {}]
    /\ last = [op |-> "init"]
    /\ \E project \in Projects :
          /\ tasksFile = project.tasksFile
          /\ configFile = project.configFile
          /\ vscodeDir = project.vscodeDir
    /\ backups = [t \in 0..MaxClock |-> Missing]
    /\ clock = 0
    /\ run = IdleRun
    /\ snapshot = Missing

\* a createBackup call leaves the history variable: what it found, and the
\* directory it returned (no handle when it threw)
SnapshotOf(res) ==
    IF res.ok
    THEN [handle |-> res.backupPath, tasks |-> tasksFile, config |-> configFile]
    ELSE [tasks |-> tasksFile, config |-> configFile]

\* createBackup called by itself
CreateBackupCall ==
    /\ run.pc = "idle"
    /\ \E now \in Now, failAt \in BackupFailures :
          LET res == createBackup(now, failAt)
          IN  /\ backups' = res.backups
              /\ clock' = now
              /\ snapshot' = SnapshotOf(res)
              /\ last' = IF res.ok
                         THEN [op |-> "createBackup", ok |-> TRUE, backupPath |-> res.backupPath]
                         ELSE [op |-> "createBackup", ok |-> FALSE, failAt |-> failAt]
    /\ UNCHANGED <<tasksFile, configFile, vscodeDir, run>>
    /\ UNCHANGED memVars

\* restoreFromBackup called by itself
RestoreCall ==
    /\ run.pc = "idle"
    /\ \E backupPath \in 0..MaxClock :
          \E failAt \in RestoreFailures(backupPath) :
              LET res == restoreFromBackup(backupPath, failAt)
              IN  /\ tasksFile' = res.tasksFile
                  /\ configFile' = res.configFile
                  /\ last' = [op |-> "restore", ok |-> res.ok, backupPath |-> backupPath,
                               changed |-> res.tasksFile # tasksFile]
    /\ UNCHANGED <<vscodeDir, backups, clock, run, snapshot>>
    /\ UNCHANGED memVars

\* runMigrations up to its first await that matters: nothing needed returns at
\* once, otherwise the backup is next
RunStart ==
    /\ run.pc = "idle"
    /\ \E migrations \in RunArgs :
          LET check == checkMigrationNeeded
          IN  IF Len(check) = 0
              THEN /\ run' = run
                   /\ last' = [op |-> "runMigrations", requested |-> migrations,
                               threw |-> FALSE, attempts |-> <<>>,
                               returned |-> [success |-> TRUE]]
              ELSE /\ run' = [pc |-> "backup",
                              requested |-> migrations,
                              migrationsToRun |-> IF migrations = null THEN check
                                                  ELSE migrations.list,
                              todo |-> IF migrations = null THEN check
                                       ELSE migrations.list,
                              results |-> <<>>,
                              attempts |-> <<>>,
                              startFile |-> tasksFile]
                   /\ last' = [op |-> "runMigrations.check"]
    /\ UNCHANGED <<tasksFile, configFile, vscodeDir, backups, clock, snapshot>>
    /\ UNCHANGED memVars

\* a plausible slip: the run goes on to the migrations although the backup threw
RunBackup_goOn(now, failAt) ==
    LET res == createBackup(now, failAt)
    IN  /\ backups' = res.backups
        /\ clock' = now
        /\ snapshot' = SnapshotOf(res)
        /\ run' = [run EXCEPT !.pc = "steps"] @@ [backupPath |-> now]
        /\ last' = [op |-> "runMigrations.backup"]

\* "const backupPath = await this.createBackup()": a throw ends the run
RunBackup(now, failAt) ==
    LET res == createBackup(now, failAt)
    IN  /\ backups' = res.backups
        /\ clock' = now
        /\ snapshot' = SnapshotOf(res)
        /\ IF res.ok
           THEN /\ run' = [run EXCEPT !.pc = "steps"] @@ [backupPath |-> res.backupPath]
                /\ last' = [op |-> "runMigrations.backup"]
           ELSE /\ run' = IdleRun
                /\ last' = [op |-> "runMigrations", requested |-> run.requested,
                            threw |-> TRUE, attempts |-> run.attempts,
                            startFile |-> run.startFile]

RunBackupStep ==
    /\ run.pc = "backup"
    /\ \E now \in Now, failAt \in BackupFailures : RunBackup(now, failAt)
    /\ UNCHANGED <<tasksFile, configFile, vscodeDir>>
    /\ UNCHANGED memVars

\* a plausible slip: a migration that fails ends the loop (a throw not caught)
Attempted_abort(migration, success) ==
    [run EXCEPT !.todo = IF success THEN Tail(@) ELSE <<>>,
                !.results = SetResult(@, migration, success),
                !.attempts = Append(@, [name |-> migration, success |-> success])]

\* the loop body's bookkeeping after one migration ran: its result is stored
\* under its name and the loop moves on, whether it succeeded or threw
Attempted(migration, success) ==
    [run EXCEPT !.todo = Tail(@),
                !.results = SetResult(@, migration, success),
                !.attempts = Append(@, [name |-> migration, success |-> success])]

InLoop(migration) ==
    /\ run.pc = "steps"
    /\ Len(run.todo) > 0
    /\ Head(run.todo) = migration

\* case 'nested-subtasks'; readJSON gives null when the file cannot be read
StepNestedSubtasks ==
    /\ InLoop("nested-subtasks")
    /\ \E now \in Now, readable \in BOOLEAN :
          LET res == migrateToNestedSubtasks(IF readable THEN tasksFile ELSE Missing, now)
          IN  /\ tasksFile' = IF res.ok THEN res.data ELSE tasksFile
              /\ clock' = IF res.ok THEN now ELSE clock
              /\ run' = Attempted("nested-subtasks", res.ok)
    /\ last' = [op |-> "runMigrations.step"]
    /\ UNCHANGED <<configFile, vscodeDir, backups, snapshot>>
    /\ UNCHANGED memVars

\* case 'version-metadata'
StepVersionMetadata ==
    /\ InLoop("version-metadata")
    /\ \E now \in Now, readable \in BOOLEAN :
          LET res == addVersionMetadata(IF readable THEN tasksFile ELSE Missing, now)
          IN  /\ tasksFile' = IF res.ok THEN res.data ELSE tasksFile
              /\ clock' = IF res.ok THEN now ELSE clock
              /\ run' = Attempted("version-metadata", res.ok)
    /\ last' = [op |-> "runMigrations.step"]
    /\ UNCHANGED <<configFile, vscodeDir, backups, snapshot>>
    /\ UNCHANGED memVars

\* case 'vscode-integration': initialize() makes .vscode first and writes its files;
\* it returns false when any of that throws, and the step throws
StepVSCodeIntegration ==
    /\ InLoop("vscode-integration")
    /\ \E outcome \in {"done", "failed before .vscode", "failed after .vscode"} :
          /\ vscodeDir' = IF outcome = "failed before .vscode" THEN vscodeDir ELSE TRUE
          /\ run' = Attempted("vscode-integration", outcome = "done")
    /\ last' = [op |-> "runMigrations.step"]
    /\ UNCHANGED <<tasksFile, configFile, backups, clock, snapshot>>
    /\ UNCHANGED memVars

\* default: an unknown migration is recorded as failed
StepUnknown ==
    /\ run.pc = "steps"
    /\ Len(run.todo) > 0
    /\ Head(run.todo) \notin {"nested-subtasks", "version-metadata", "vscode-integration"}
    /\ run' = Attempted(Head(run.todo), FALSE)
    /\ last' = [op |-> "runMigrations.step"]
    /\ UNCHANGED <<tasksFile, configFile, vscodeDir, backups, clock, snapshot>>
    /\ UNCHANGED memVars

\* after the loop: the lists are taken from results and the call returns
RunFinish ==
    /\ run.pc = "steps"
    /\ Len(run.todo) = 0
    /\ LET successfulMigrations == KeysWhere(run.results, TRUE)
           failedMigrations == KeysWhere(run.results, FALSE)
       IN  last' = [op |-> "runMigrations", requested |-> run.requested,
                    threw |-> FALSE, attempts |-> run.attempts,
                    migrationsToRun |-> run.migrationsToRun,
                    returned |-> [success |-> Len(failedMigrations) = 0,
                                  results |-> run.results,
                                  backupPath |-> run.backupPath,
                                  successfulMigrations |-> successfulMigrations,
                                  failedMigrations |-> failedMigrations]]
    /\ run' = IdleRun
    /\ UNCHANGED <<tasksFile, configFile, vscodeDir, backups, clock, snapshot>>
    /\ UNCHANGED memVars

MigNext ==
    \/ CreateBackupCall
    \/ RestoreCall
    \/ RunStart
    \/ RunBackupStep
    \/ StepNestedSubtasks
    \/ StepVersionMetadata
    \/ StepVSCodeIntegration
    \/ StepUnknown
    \/ RunFinish

SpecMig == MigInit /\ [][MigNext]_vars

(***************************************************************************)
(* addSubtask (add-subtask.js): a new subtask, or an existing root task    *)
(* converted into one, under a root task or under a subtask named by a     *)
(* hierarchical identifier.  The tasks file is tasksFile.  An identifier   *)
(* argument is a number [num |-> n] or a text [str |-> characters].        *)
(***************************************************************************)
InvalidDocument == "Invalid or missing tasks file"
ParentTaskNotFound == "Parent task not found"
TargetSubtaskNotFound == "Target subtask not found"
InvalidParentId == "Invalid parent ID"
TaskNotFound == "Task not found"
AlreadySubtask == "Task is already a subtask"
SelfReference == "Cannot make a task a subtask of itself"
CircularReference == "Cannot create circular dependency"
NothingToAdd == "Either existingTaskId or newSubtaskData must be provided"

\* parseInt(value, 10) of an argument
ParseIntArg(arg) ==
    IF Has(arg, "num") THEN [nan |-> FALSE, n |-> arg.num] ELSE ParseInt(arg.str)

\* typeof parentId === 'string' && parentId.includes('.')
IsHierarchical(parentId) == Has(parentId, "str") /\ "." \in Range(parentId.str)

\* the identifiers a task declares as dependencies
DependenciesOf(task) == Range(OrArray(task, "dependencies", <<>>))

\* the identifiers reached from ids along dependency edges between root tasks
RECURSIVE ReachedFrom(_, _, _)
ReachedFrom(allTasks, ids, seen) ==
    LET next == UNION {DependenciesOf(allTasks[i]) :
                          i \in {j \in 1..Len(allTasks) : allTasks[j].id \in ids}}
        fresh == next \ seen
    IN  IF fresh = {} THEN seen ELSE ReachedFrom(allTasks, fresh, seen \cup fresh)

\* isTaskDependentOn of task-manager.js, which walks the dependency graph and not
\* the containment tree: some path of dependency edges leads from task to
\* targetTaskId
isTaskDependentOn(allTasks, task, targetTaskId) ==
    targetTaskId \in ReachedFrom(allTasks, DependenciesOf(task), DependenciesOf(task))

\* the parent task found and migrated, at place at of data.tasks, and the path
\* the new subtask is added at
ResolveParent(data, parentId) ==
    IF IsHierarchical(parentId)
    THEN LET Migrated(parsed, at, parentTask) ==
                 IF findNestedSubtask(parentTask, parsed.path) = null
                 THEN [ok |-> FALSE, error |-> TargetSubtaskNotFound]
                 ELSE [ok |-> TRUE, at |-> at, parentTask |-> parentTask,
                       targetPath |-> Append(parsed.path, 0),
                       isNestedSubtask |-> TRUE,
                       rootParentId |-> parsed.parentId]
             Found(parsed, at) ==
                 IF at = 0 THEN [ok |-> FALSE, error |-> ParentTaskNotFound]
                 ELSE Migrated(parsed, at, migrateLegacySubtasks(data.tasks[at]))
             Parsed(parsed) ==
                 IF ~parsed.ok THEN [ok |-> FALSE, error |-> parsed.error]
                 ELSE Found(parsed, IndexOfId(data.tasks, parsed.parentId))
         IN  Parsed(parseSubtaskId(parentId.str))
    ELSE LET Found(parentIdNum, at) ==
                 IF at = 0 THEN [ok |-> FALSE, error |-> ParentTaskNotFound]
                 ELSE [ok |-> TRUE, at |-> at,
                       parentTask |-> migrateLegacySubtasks(data.tasks[at]),
                       targetPath |-> <<0>>,
                       isNestedSubtask |-> FALSE,
                       rootParentId |-> parentIdNum]
             Parsed(parentIdNum) ==
                 IF parentIdNum.nan THEN [ok |-> FALSE, error |-> InvalidParentId]
                 ELSE Found(parentIdNum.n, IndexOfId(data.tasks, parentIdNum.n))
         IN  Parsed(ParseIntArg(parentId))

\* what addSubtask returns: the subtask with fullId, isNested and depth
AddedSubtask(parent, newSubtask) ==
    [fullId |-> IF parent.isNestedSubtask
                THEN generateSubtaskId(parent.parentTask.id,
                                       Append(Front(parent.targetPath), newSubtask.id)).value
                ELSE NumToString(parent.parentTask.id) \o <<".">>
                        \o NumToString(newSubtask.id),
     isNested |-> parent.isNestedSubtask,
     depth |-> Len(parent.targetPath)] @@ newSubtask

\* Case 1: the existing root task becomes a subtask and leaves data.tasks
ConvertExisting(data, parent, existingTaskId) ==
    LET Converted(existingTaskIndex, result) ==
            IF ~result.ok THEN [ok |-> FALSE, error |-> result.error]
            ELSE [ok |-> TRUE,
                  data |-> [data EXCEPT !.tasks =
                               Splice([data.tasks EXCEPT ![parent.at] = result.task],
                                      existingTaskIndex)],
                  returned |-> AddedSubtask(parent, result.subtask)]
        Checked(existingTaskIdNum, existingTaskIndex, existingTask) ==
            IF Has(existingTask, "parentTaskId")
            THEN [ok |-> FALSE, error |-> AlreadySubtask]
            ELSE IF existingTaskIdNum = parent.rootParentId
            THEN [ok |-> FALSE, error |-> SelfReference]
            ELSE IF isTaskDependentOn(data.tasks, parent.parentTask, existingTaskIdNum)
            THEN [ok |-> FALSE, error |-> CircularReference]
            ELSE Converted(existingTaskIndex,
                           addNestedSubtask(parent.parentTask, parent.targetPath,
                               [title |-> existingTask.title,
                                description |-> OrText(existingTask, "description", ""),
                                details |-> OrText(existingTask, "details", ""),
                                status |-> OrText(existingTask, "status", "pending"),
                                dependencies |-> OrArray(existingTask, "dependencies", <<>>)]))
        Found(existingTaskIdNum, existingTaskIndex) ==
            IF existingTaskIndex = 0 THEN [ok |-> FALSE, error |-> TaskNotFound]
            ELSE Checked(existingTaskIdNum, existingTaskIndex, data.tasks[existingTaskIndex])
        Parsed(existingTaskIdNum) ==
            Found(existingTaskIdNum.n,
                  IF existingTaskIdNum.nan THEN 0
                  ELSE IndexOfId(data.tasks, existingTaskIdNum.n))
    IN  Parsed(ParseIntArg(existingTaskId))

\* Case 2: a new subtask
CreateNew(data, parent, newSubtaskData) ==
    LET Added(result) ==
            IF ~result.ok THEN [ok |-> FALSE, error |-> result.error]
            ELSE [ok |-> TRUE,
                  data |-> [data EXCEPT !.tasks[parent.at] = result.task],
                  returned |-> AddedSubtask(parent, result.subtask)]
    IN  Added(addNestedSubtask(parent.parentTask, parent.targetPath, newSubtaskData))

\* data is what readJSON gave (Missing for null); when ok, data is what writeJSON
\* wrote; a call that throws writes nothing
addSubtask(data, parentId, existingTaskId, newSubtaskData) ==
    IF data = Missing \/ ~Has(data, "tasks")
    THEN [ok |-> FALSE, error |-> InvalidDocument]
    ELSE LET With(parent) ==
                 IF ~parent.ok THEN parent
                 ELSE IF existingTaskId # null
                 THEN ConvertExisting(data, parent, existingTaskId)
                 ELSE IF newSubtaskData # null
                 THEN CreateNew(data, parent, newSubtaskData)
                 ELSE [ok |-> FALSE, error |-> NothingToAdd]
         IN  With(ResolveParent(data, parentId))

(***************************************************************************)
(* The tasks files addSubtask is called on, and the calls.                 *)
(***************************************************************************)
DependentTask(id, dependencies) == [EmptyTask(id) EXCEPT !.dependencies = dependencies]

\* task 3 declares task 5 as a dependency, and task 5 declares task 7
ChainFile ==
    [tasks |-> <<DependentTask(3, <<5>>), DependentTask(5, <<7>>), EmptyTask(7)>>]

\* subtask 3.1 declares task 5 as a dependency, task 3 declares none; task 5
\* owns a subtask
NestedFile ==
    [tasks |-> <<[EmptyTask(3) EXCEPT !.subtasks = <<DependentTask(1, <<5>>)>>],
                 [EmptyTask(5) EXCEPT !.subtasks = <<EmptyTask(1)>>]>>]

\* a tasks file written before nested subtasks existed
OldFile == [tasks |-> <<LegacyTask(3), BareTask(5)>>]

AddFiles == {ChainFile, NestedFile, OldFile, NoTasksFile, Missing}

ParentIdArgs ==
    { [num |-> 3], [num |-> 5], [str |-> <<"7">>], [str |-> <<"3", ".", "1">>],
      [str |-> <<"3", ".", "x">>], [str |-> <<"x">>] }

ExistingTaskIdArgs == { [num |-> 3], [num |-> 5], [str |-> <<"7">>], [num |-> 9] }

NewSubtaskArgs == { [title |-> "New", dependencies |-> <<7>>] }

AddInit ==
    /\ tasks = <<EmptyTask(1)>>
    /\ removedIds = [r \in 1..Len(tasks) |-> {}]
    /\ last = [op |-> "init"]
    /\ tasksFile \in AddFiles
    /\ configFile = Missing
    /\ vscodeDir = FALSE
    /\ backups = [t \in 0..MaxClock |-> Missing]
    /\ clock = 0
    /\ run = IdleRun
    /\ snapshot = Missing

\* one call of addSubtask on the tasks file
AddSubtask(parentId, existingTaskId, newSubtaskData) ==
    LET Returns(res) ==
            /\ tasksFile' = IF res.ok THEN res.data ELSE tasksFile
            /\ res.ok => CountDocument(tasksFile'.tasks) <= MaxFileNodes
            /\ last' = [op |-> "addSubtask", parentId |-> parentId,
                        existingTaskId |-> existingTaskId,
                        res |-> IF res.ok THEN [ok |-> TRUE, returned |-> res.returned]
                                ELSE [ok |-> FALSE, error |-> res.error]]
    IN  Returns(addSubtask(tasksFile, parentId, existingTaskId, newSubtaskData))

ConvertCall ==
    /\ \E parentId \in ParentIdArgs, existingTaskId \in ExistingTaskIdArgs :
            AddSubtask(parentId, existingTaskId, null)
    /\ UNCHANGED <<configFile, vscodeDir, backups, clock, run, snapshot>>
    /\ UNCHANGED memVars

CreateCall ==
    /\ \E parentId \in ParentIdArgs, newSubtaskData \in NewSubtaskArgs :
            AddSubtask(parentId, null, newSubtaskData)
    /\ UNCHANGED <<configFile, vscodeDir, backups, clock, run, snapshot>>
    /\ UNCHANGED memVars

EmptyCall ==
    /\ \E parentId \in ParentIdArgs : AddSubtask(parentId, null, null)
    /\ UNCHANGED <<configFile, vscodeDir, backups, clock, run, snapshot>>
    /\ UNCHANGED memVars

AddNext == ConvertCall \/ CreateCall \/ EmptyCall

SpecAdd == AddInit /\ [][AddNext]_vars

(***************************************************************************)
(* Dependency validation: validateNestedDependencies.  A dependency        *)
(* reference is a number, [num |-> n], or a string, [str |-> characters];  *)
(* === never holds between a number and a string.                          *)
(***************************************************************************)
MaxDeps == 2
MaxDependents == 2

StrictEqualsString(text, depId) == Has(depId, "str") /\ depId.str = text

StrictEqualsNumber(n, depId) == Has(depId, "num") /\ depId.num = n

\* `${depId}`
RefText(depId) == IF Has(depId, "num") THEN NumToString(depId.num) ELSE depId.str

\* a plausible slip: only full identifiers count as targets
Resolves_fullIdOnly(allSubtasks, depId) ==
    \E i \in 1..Len(allSubtasks) : StrictEqualsString(allSubtasks[i].fullId, depId)

\* allSubtasks.some(st => st.fullId === depId || st.id === depId)
Resolves(allSubtasks, depId) ==
    \E i \in 1..Len(allSubtasks) :
        \/ StrictEqualsString(allSubtasks[i].fullId, depId)
        \/ StrictEqualsNumber(allSubtasks[i].id, depId)

\* a plausible slip: only string references are looked up
DependencyErrors_stringsOnly(subtask, allSubtasks) ==
    LET Report(bad) ==
            [i \in 1..Len(bad) |->
                [subtaskId |-> subtask.fullId, invalidDependency |-> bad[i],
                 message |-> <<"Subtask ">> \o subtask.fullId
                                \o <<" has invalid dependency: ">> \o RefText(bad[i])]]
    IN  IF Has(subtask, "dependencies") /\ Len(subtask.dependencies) > 0
        THEN Report(SelectSeq(subtask.dependencies,
                              LAMBDA depId : Has(depId, "str")
                                                /\ ~Resolves(allSubtasks, depId)))
        ELSE <<>>

\* the errors pushed for one flattened subtask, in the order of its dependencies
DependencyErrors(subtask, allSubtasks) ==
    LET Report(bad) ==
            [i \in 1..Len(bad) |->
                [subtaskId |-> subtask.fullId, invalidDependency |-> bad[i],
                 message |-> <<"Subtask ">> \o subtask.fullId
                                \o <<" has invalid dependency: ">> \o RefText(bad[i])]]
    IN  IF Has(subtask, "dependencies") /\ Len(subtask.dependencies) > 0
        THEN Report(SelectSeq(subtask.dependencies,
                              LAMBDA depId : ~Resolves(allSubtasks, depId)))
        ELSE <<>>

RECURSIVE Concat(_)
Concat(lists) == IF Len(lists) = 0 THEN <<>> ELSE Head(lists) \o Concat(Tail(lists))

validateNestedDependencies(parentTask) ==
    LET Checked(allSubtasks) ==
            Concat([i \in 1..Len(allSubtasks) |->
                       DependencyErrors(allSubtasks[i], allSubtasks)])
    IN  Checked(getAllNestedSubtasks(parentTask, TRUE))

\* a second root task holding one subtask written before dependencies were kept
OtherTask == [EmptyTask(2) EXCEPT !.subtasks = <<LegacySubtask(1)>>]

ValidationDocument == <<SampleTask, OtherTask, EmptyTask(3)>>

\* '1.2' names a subtask of the sample task, '1.3.4' nothing, '2.1' a subtask of the
\* other task; 2 is a root task and the bare identifier of 1.2; 3 is a root task only
DependencyRefs ==
    { [str |-> <<"1", ".", "2">>],
      [str |-> <<"1", ".", "3", ".", "4">>],
      [str |-> <<"2", ".", "1">>],
      [num |-> 2],
      [num |-> 3] }

DependencyLists ==
    UNION {[1..n -> DependencyRefs] : n \in 0..MaxDeps}

\* subtask.dependencies = [...] on the subtask findNestedSubtask returned
SetDependencies(roots, r, path, deps) ==
    LET Assigned(subtask) ==
            IF subtask = null THEN roots
            ELSE [roots EXCEPT ![r] =
                     ReplaceNode(@, path, Assign(subtask, "dependencies", deps))]
    IN  Assigned(findNestedSubtask(roots[r], path))

\* the documents in which at most n subtasks were given a dependency list
RECURSIVE ValidationDocuments(_)
ValidationDocuments(n) ==
    IF n = 0 THEN {ValidationDocument}
    ELSE LET Extended(fewer) ==
                 fewer \cup {SetDependencies(roots, r, path, deps) :
                                roots \in fewer, r \in 1..Len(ValidationDocument),
                                path \in PathArgs, deps \in DependencyLists}
         IN  Extended(ValidationDocuments(n - 1))

ValInit ==
    /\ tasks \in ValidationDocuments(MaxDependents)
    /\ removedIds = [r \in 1..Len(tasks) |-> {}]
    /\ last = [op |-> "init"]
    /\ FsIdle

Validate(r) ==
    /\ last' = [op |-> "validate", root |-> r, ok |-> TRUE,
                errors |-> validateNestedDependencies(tasks[r])]
    /\ UNCHANGED memVars

ValidateCall ==
    /\ \E r \in 1..Len(tasks) : Validate(r)
    /\ UNCHANGED fsVars

ValNext == ValidateCall

SpecVal == ValInit /\ [][ValNext]_vars

(***************************************************************************)
(* The identifier codec on its own: parseSubtaskId and generateSubtaskId   *)
(* applied to texts, numbers and paths.                                    *)
(***************************************************************************)
MaxText == 4
MaxNum == 12

\* characters of the texts handed to parseSubtaskId
IdChars == {"0", "1", "2", ".", "-", "+", " ", "a"}

IdTexts == UNION {[1..n -> IdChars] : n \in 0..MaxText}

\* parentId handed to generateSubtaskId: it is not looked at before it is printed
ParentIdNumbers == (-1)..MaxNum

GeneratePaths == UNION {[1..n -> 0..MaxNum] : n \in 0..MaxDepth}

\* the calls still to be made: one per initial state
CodecCalls ==
    {[op |-> "call", fn |-> "parse", subtaskId |-> subtaskId] : subtaskId \in IdTexts}
       \cup {[op |-> "call", fn |-> "generate", parentId |-> parentId, path |-> path] :
                 parentId \in ParentIdNumbers, path \in GeneratePaths}

CodecInit ==
    /\ tasks = <<SampleTask>>
    /\ removedIds = [r \in 1..Len(tasks) |-> {}]
    /\ last \in CodecCalls
    /\ FsIdle

Parse(subtaskId) ==
    LET Returns(res) ==
            last' = [op |-> "parse", ok |-> res.ok, subtaskId |-> subtaskId, result |-> res]
    IN  Returns(parseSubtaskId(subtaskId))

Generate(parentId, path) ==
    LET Returns(res) ==
            last' = [op |-> "generate", ok |-> res.ok, parentId |-> parentId,
                     path |-> path, result |-> res]
    IN  Returns(generateSubtaskId(parentId, path))

ParseCall ==
    /\ last.op = "call" /\ last.fn = "parse"
    /\ Parse(last.subtaskId)
    /\ UNCHANGED memVars
    /\ UNCHANGED fsVars

GenerateCall ==
    /\ last.op = "call" /\ last.fn = "generate"
    /\ Generate(last.parentId, last.path)
    /\ UNCHANGED memVars
    /\ UNCHANGED fsVars

CodecNext == ParseCall \/ GenerateCall

SpecCodec == CodecInit /\ [][CodecNext]_vars

(***************************************************************************)
(* Properties of the mutation engine.                                      *)
(***************************************************************************)
\* the owner of the collection a path's last segment lives in (<<>>: the root task)
Owner(task, path) ==
    IF Len(path) = 1 THEN task ELSE findNestedSubtask(task, Front(path))

\* a node's child collection, empty when it has none
Children(node) == IF node # null /\ HasSubtasks(node) THEN node.subtasks ELSE <<>>

IdsOf(subtasks) == [i \in 1..Len(subtasks) |-> subtasks[i].id]

Distinct(seq) == \A i, j \in 1..Len(seq) : i # j => seq[i] # seq[j]

RECURSIVE UniqueBelow(_)
UniqueBelow(node) ==
    /\ Distinct(IdsOf(Children(node)))
    /\ \A i \in 1..Len(Children(node)) : UniqueBelow(Children(node)[i])

InsertDone == last.op = "insert" /\ last.ok
RemoveDone == last.op = "remove" /\ last.ok
UpdateDone == last.op = "update" /\ last.ok

\* C1: in every reachable state no two subtasks of one sibling collection share an
\* identifier, at any depth, and the root task identifiers are pairwise distinct.
C1_UniqueSiblingIds ==
    /\ Distinct(IdsOf(tasks))
    /\ \A r \in 1..Len(tasks) : UniqueBelow(tasks[r])

\* an insert into a collection from which a subtask was removed before and in which
\* siblings remain
C1_Witness ==
    /\ InsertDone
    /\ Len(last.path) = 1
    /\ removedIds[last.root] # {}
    /\ Len(tasks[last.root].subtasks) >= 2

\* C2 as stated: an identifier removed from a collection is never assigned again to
\* a subtask inserted into that collection (checked on each root's direct children).
C2_NeverReused ==
    [][(last'.op = "insert" /\ last'.ok /\ Len(last'.path) = 1)
          => last'.subtask.id \notin removedIds[last'.root]]_vars

\* C2 as amended: an inserted subtask gets an identifier greater than every
\* identifier then in the collection, so the identifier of a removed subtask is
\* assigned again only when no remaining sibling has that identifier or a greater one.
C2_ReusedOnlyAboveMax ==
    [][(last'.op = "insert" /\ last'.ok)
          => LET siblings == Children(Owner(tasks[last'.root], last'.path))
                 newId == last'.subtask.id
             IN  /\ \A i \in 1..Len(siblings) : siblings[i].id < newId
                 /\ Len(last'.path) = 1 =>
                       \A x \in removedIds[last'.root] :
                           (\E i \in 1..Len(siblings) : x <= siblings[i].id) => newId # x]_vars

\* an identifier that was removed has been assigned again
C2_Witness ==
    /\ InsertDone
    /\ Len(last.path) = 1
    /\ last.subtask.id \in removedIds[last.root]

\* C7: insert gives the new node the identifier max(sibling identifiers, or 0) + 1
\* and an empty child collection, appends it after the unchanged siblings, and
\* returns as fullId the root identifier, the owner's path and the new identifier.
C7_InsertContract ==
    [][(last'.op = "insert" /\ last'.ok)
          => LET r == last'.root
                 siblings == Children(Owner(tasks[r], last'.path))
                 node == last'.subtask
                 parsed == parseSubtaskId(last'.fullId)
             IN  /\ node.id = (IF Len(siblings) = 0 THEN 0 ELSE Max(Range(IdsOf(siblings)))) + 1
                 /\ node.subtasks = <<>>
                 /\ Children(Owner(tasks'[r], last'.path)) = Append(siblings, node)
                 /\ parsed.ok
                 /\ parsed.parentId = tasks[r].id
                 /\ parsed.path = Append(Front(last'.path), node.id)]_vars

\* a nested insert next to an existing sibling
C7_Witness ==
    /\ InsertDone
    /\ Len(last.path) = 2
    /\ last.subtask.id = 2

\* C8: on the sample task, inserting under "Level 1 Subtask" (path [1]) returns the full
\* identifier 1.1.2 and leaves it with two children.
C8_SampleScenario ==
    [][(last'.op = "insert" /\ last'.ok /\ tasks[last'.root] = SampleTask
            /\ Front(last'.path) = <<1>>)
          => /\ last'.fullId = <<"1", ".", "1", ".", "2">>
             /\ Len(findNestedSubtask(tasks'[last'.root], <<1>>).subtasks) = 2]_vars

\* the sample task with the new subtask under "Level 1 Subtask"
C8_Witness ==
    /\ InsertDone
    /\ Front(last.path) = <<1>>
    /\ tasks[last.root] =
          [SampleTask EXCEPT !.subtasks[1].subtasks = Append(@, last.subtask)]

\* C9: after a successful insert, finding the path that the returned fullId
\* denotes gives the inserted node, with the title and description of the data
\* ('' for no description) and its status, "pending" when the data has none.
C9_InsertThenFind ==
    InsertDone =>
        LET parsed == parseSubtaskId(last.fullId)
            found == findNestedSubtask(tasks[last.root], parsed.path)
        IN  /\ parsed.ok
            /\ parsed.parentId = tasks[last.root].id
            /\ found = last.subtask
            /\ found.title = last.data.title
            /\ found.description =
                  (IF Has(last.data, "description") THEN last.data.description ELSE "")
            /\ found.status =
                  (IF Has(last.data, "status") THEN last.data.status ELSE "pending")

\* inserts with a status of their own and without one have both happened
C9_Witness ==
    /\ InsertDone
    /\ Has(last.data, "status")
    /\ last.subtask.status = "done"
    /\ \E r \in 1..Len(tasks) : \E i \in 1..Len(Children(tasks[r])) :
          /\ tasks[r].subtasks[i].title = "A"
          /\ tasks[r].subtasks[i].status = "pending"

\* C10: a successful remove returns the addressed node, leaves its path and every
\* extension of it unresolvable, shortens the containing collection by exactly one,
\* and keeps every other node's identifier, fields, children and relative order.
C10_RemoveContract ==
    [][(last'.op = "remove" /\ last'.ok)
          => LET r == last'.root
                 path == last'.path
                 before == tasks[r]
                 after == tasks'[r]
                 siblings == Children(Owner(before, path))
                 index == IndexOfId(siblings, Last(path))
             IN  /\ last'.removed = findNestedSubtask(before, path)
                 /\ last'.removed # null
                 /\ \A ext \in PathsUpTo(MaxDepth) :
                       findNestedSubtask(after, path \o ext) = null
                 /\ Len(Children(Owner(after, path))) = Len(siblings) - 1
                 /\ Children(Owner(after, path)) =
                       [i \in 1..(Len(siblings) - 1) |->
                           IF i < index THEN siblings[i] ELSE siblings[i + 1]]
                 /\ OwnFields(after) = OwnFields(before)
                 /\ \A q \in PathArgs :
                       IF IsPrefix(path, q) THEN TRUE
                       ELSE IF IsPrefix(q, path)
                       THEN /\ OwnFields(findNestedSubtask(after, q))
                                 = OwnFields(findNestedSubtask(before, q))
                            /\ Len(q) < Len(path) - 1 =>
                                 IdsOf(Children(findNestedSubtask(after, q)))
                                   = IdsOf(Children(findNestedSubtask(before, q)))
                       ELSE findNestedSubtask(after, q) = findNestedSubtask(before, q)
                 /\ \A other \in 1..Len(tasks) : other # r => tasks'[other] = tasks[other]]_vars

\* a subtask with children of its own was removed while other subtasks remain
C10_Witness ==
    /\ RemoveDone
    /\ Len(Children(last.removed)) > 0
    /\ Len(Children(tasks[last.root])) > 0

(***************************************************************************)
(* Backup, restore and the migration driver (SpecMig).                     *)
(***************************************************************************)
\* a restoreFromBackup that returned, of the directory the latest createBackup
\* made while both the tasks file and the configuration existed
RestoredLatestBackup ==
    /\ last.op = "restore"
    /\ last.ok
    /\ Has(snapshot, "handle")
    /\ snapshot.handle = last.backupPath
    /\ snapshot.tasks # Missing
    /\ snapshot.config # Missing

\* C3: a backup taken of an existing tasks file and configuration, then any
\* migration steps, then a restore of that backup, leave the live tasks file and
\* configuration equal to what they were when the backup was taken.
C3_RestoreGivesBackSnapshot ==
    RestoredLatestBackup =>
        /\ tasksFile = snapshot.tasks
        /\ configFile = snapshot.config

\* a restore that undid what migration steps had written since the backup
C3_Witness ==
    /\ RestoredLatestBackup
    /\ last.changed
    /\ tasksFile = snapshot.tasks
    /\ Has(tasksFile, "tasks")

\* the latest createBackup returned the directory the run holds, and it holds
\* the tasks file the run started from
RunHasBackup ==
    /\ "backupPath" \in DOMAIN run
    /\ Has(snapshot, "handle")
    /\ snapshot.handle = run.backupPath
    /\ backups[run.backupPath] # Missing
    /\ backups[run.backupPath].tasks = run.startFile

\* C4: in a run of runMigrations no step is attempted and the tasks file is not
\* written before createBackup has returned; when createBackup throws the run
\* throws with no step attempted and the tasks file as it was.
C4_BackupBeforeAnyStep ==
    /\ run.pc = "backup" => (run.attempts = <<>> /\ tasksFile = run.startFile)
    /\ run.pc = "steps" => RunHasBackup
    /\ (run.pc = "steps" /\ run.attempts = <<>>) => tasksFile = run.startFile
    /\ (last.op = "runMigrations" /\ last.threw) =>
           (last.attempts = <<>> /\ tasksFile = last.startFile /\ run.pc = "idle")

\* a run that threw because its backup could not be made
C4_Witness ==
    /\ last.op = "runMigrations"
    /\ last.threw
    /\ ~Has(snapshot, "handle")
    /\ Has(snapshot, "tasks")
    /\ tasksFile # Missing

\* a run whose step wrote the tasks file, after its backup
C4_WitnessStepWrote ==
    /\ run.pc = "steps"
    /\ tasksFile # run.startFile
    /\ RunHasBackup

RunReturned == last.op = "runMigrations" /\ ~last.threw

\* the names of the attempts, in the order they were made
AttemptNames(attempts) == [i \in 1..Len(attempts) |-> attempts[i].name]

\* what the latest attempt of a migration gave
LatestAttempt(attempts, name) ==
    LET at == Max({i \in 1..Len(attempts) : attempts[i].name = name})
    IN  attempts[at].success

\* results holds one result for each name, and no other
OneResultEach(results, names) ==
    /\ \A i, j \in 1..Len(results) : results[i].name = results[j].name => i = j
    /\ {results[i].name : i \in 1..Len(results)} = names

\* each recorded name is in exactly one of the two lists, the one its result says
InExactlyOneList(returned) ==
    \A i \in 1..Len(returned.results) :
        LET name == returned.results[i].name
            inOk == name \in Range(returned.successfulMigrations)
            inKo == name \in Range(returned.failedMigrations)
        IN  /\ inOk # inKo
            /\ inOk = returned.results[i].success

\* C5 as the spec states it: whatever list is requested, every step of it is
\* attempted in order, each has a result and is in exactly one list, success
\* means no step failed, and the backup handle is returned.
C5_AsStated ==
    (RunReturned /\ last.requested # null) =>
        /\ AttemptNames(last.attempts) = last.requested.list
        /\ Has(last.returned, "results")
        /\ Has(last.returned, "backupPath")
        /\ OneResultEach(last.returned.results, Range(last.requested.list))
        /\ InExactlyOneList(last.returned)
        /\ last.returned.success =
               (\A i \in 1..Len(last.attempts) : last.attempts[i].success)

\* C5: once migrations are needed and the backup is made, every entry of the
\* list is attempted in list order whatever failed before it, each requested
\* name has one result (that of its latest attempt), each name is in exactly one
\* of successfulMigrations / failedMigrations, success is true exactly when no
\* recorded result is a failure, and the backup directory is returned; when no
\* migration is needed the call returns success with nothing attempted.
C5_FailingStepDoesNotAbort ==
    RunReturned =>
        IF Has(last.returned, "results")
        THEN /\ AttemptNames(last.attempts) = last.migrationsToRun
             /\ last.requested # null => last.migrationsToRun = last.requested.list
             /\ OneResultEach(last.returned.results, Range(last.migrationsToRun))
             /\ \A i \in 1..Len(last.returned.results) :
                    last.returned.results[i].success
                        = LatestAttempt(last.attempts, last.returned.results[i].name)
             /\ InExactlyOneList(last.returned)
             /\ last.returned.success =
                    (\A i \in 1..Len(last.returned.results) :
                         last.returned.results[i].success)
             /\ Has(last.returned, "backupPath")
             /\ snapshot.handle = last.returned.backupPath
        ELSE /\ last.attempts = <<>>
             /\ last.returned.success
             /\ checkMigrationNeeded = <<>>

\* a run in which a step failed and a later, different step succeeded
C5_Witness ==
    /\ RunReturned
    /\ Len(last.attempts) = 2
    /\ ~last.attempts[1].success
    /\ last.attempts[2].success
    /\ last.attempts[1].name # last.attempts[2].name
    /\ ~last.returned.success

(***************************************************************************)
(* Conversion of a root task into a subtask (SpecAdd).                     *)
(***************************************************************************)
\* the call just made asked for a conversion whose parent and task both exist in
\* the tasks file the call read
ConversionAsked ==
    /\ last'.op = "addSubtask"
    /\ last'.existingTaskId # null
    /\ tasksFile # Missing
    /\ Has(tasksFile, "tasks")
    /\ ResolveParent(tasksFile, last'.parentId).ok
    /\ ~ParseIntArg(last'.existingTaskId).nan
    /\ IndexOfId(tasksFile.tasks, ParseIntArg(last'.existingTaskId).n) # 0

\* the node the converted task is to go under: the root task, or the subtask a
\* hierarchical identifier names
ProspectiveParent(data, parentId) ==
    LET parent == ResolveParent(data, parentId)
    IN  IF parent.isNestedSubtask
        THEN findNestedSubtask(parent.parentTask, Front(parent.targetPath))
        ELSE parent.parentTask

\* some path of one or more dependency edges leads from node to target
DependencyPath(allTasks, node, target) ==
    target \in ReachedFrom(allTasks, DependenciesOf(node), DependenciesOf(node))

C11_UpdateProtectsStructure ==
    [][(last'.op = "update" /\ last'.ok)
          => LET r == last'.root
                 path == last'.path
                 patch == last'.updates
                 old == findNestedSubtask(tasks[r], path)
                 new == findNestedSubtask(tasks'[r], path)
             IN  /\ old # null
                 /\ new = last'.subtask
                 /\ new.id = old.id
                 /\ HasSubtasks(new) = HasSubtasks(old)
                 /\ Children(new) = Children(old)
                 /\ \A k \in DOMAIN patch \ {"id", "subtasks"} :
                       k \in DOMAIN new /\ new[k] = patch[k]
                 /\ \A k \in DOMAIN new \ DOMAIN patch : k \in DOMAIN old /\ new[k] = old[k]
                 /\ DOMAIN old \subseteq DOMAIN new
                 /\ OwnFields(tasks'[r]) = OwnFields(tasks[r])
                 /\ \A q \in PathArgs :
                       IF q = path THEN TRUE
                       ELSE IF IsPrefix(q, path)
                       THEN /\ OwnFields(findNestedSubtask(tasks'[r], q))
                                 = OwnFields(findNestedSubtask(tasks[r], q))
                            /\ IdsOf(Children(findNestedSubtask(tasks'[r], q)))
                                 = IdsOf(Children(findNestedSubtask(tasks[r], q)))
                       ELSE findNestedSubtask(tasks'[r], q) = findNestedSubtask(tasks[r], q)
                 /\ \A other \in 1..Len(tasks) : other # r => tasks'[other] = tasks[other]]_vars

\* a patch naming id and subtasks was applied to a subtask that has children
C11_Witness ==
    /\ UpdateDone
    /\ {"id", "subtasks"} \subseteq DOMAIN last.updates
    /\ last.subtask.id # last.updates.id
    /\ Len(Children(last.subtask)) > 0
    /\ last.subtask.status = last.updates.status

\* the paths of all subtasks below a node, each read from the node downwards
RECURSIVE PathsBelow(_)
PathsBelow(node) ==
    UNION { {<<Children(node)[i].id>>}
               \cup {<<Children(node)[i].id>> \o p : p \in PathsBelow(Children(node)[i])}
            : i \in 1..Len(Children(node)) }

\* in a depth-first pre-order walk the subtask at p is met before the one at q
PreOrderBefore(root, p, q) ==
    \/ IsPrefix(p, q) /\ p # q
    \/ \E k \in 1..Len(p) :
          /\ k <= Len(q)
          /\ SubSeq(p, 1, k - 1) = SubSeq(q, 1, k - 1)
          /\ p[k] # q[k]
          /\ LET siblings == Children(IF k = 1 THEN root
                                      ELSE findNestedSubtask(root, SubSeq(p, 1, k - 1)))
             IN  IndexOfId(siblings, p[k]) < IndexOfId(siblings, q[k])

FlattenDone == last.op = "flatten" /\ last.includeParentId

\* C12: flatten returns exactly one entry for every subtask below the root and none
\* for the root, in depth-first pre-order; an entry carries the subtask's fields, its
\* path of sibling identifiers from the root, fullId = root identifier plus path, and
\* depth = length of the path.
C12_FlattenPreOrder ==
    FlattenDone
       => LET root == tasks[last.root]
              res == last.result
          IN  /\ {res[i].path : i \in 1..Len(res)} = PathsBelow(root)
              /\ Len(res) = Cardinality(PathsBelow(root))
              /\ Len(res) = CountSubtasks(root)
              /\ \A i \in 1..Len(res) :
                    LET node == findNestedSubtask(root, res[i].path)
                    IN  /\ node # null
                        /\ Len(res[i].path) >= 1
                        /\ res[i].depth = Len(res[i].path)
                        /\ res[i].fullId = NumToString(root.id) \o <<".">>
                                               \o JoinDot(res[i].path)
                        /\ parseSubtaskId(res[i].fullId)
                              = [ok |-> TRUE, parentId |-> root.id, path |-> res[i].path]
                        /\ DOMAIN res[i] = DOMAIN node \cup {"fullId", "path", "depth"}
                        /\ \A k \in DOMAIN node : res[i][k] = node[k]
              /\ \A i, j \in 1..Len(res) :
                    i < j => PreOrderBefore(root, res[i].path, res[j].path)

\* a flatten of a tree in which a nested subtask stands between two direct ones
C12_Witness ==
    /\ FlattenDone
    /\ Len(last.result) >= 3
    /\ \E i \in 1..(Len(last.result) - 1) :
          /\ last.result[i].depth = 2
          /\ last.result[i + 1].depth = 1

(***************************************************************************)
(* Dependency validation of one task (SpecVal).                            *)
(***************************************************************************)
FullIdOf(root, path) == NumToString(root.id) \o <<".">> \o JoinDot(path)

DependencyList(node) == IF Has(node, "dependencies") THEN node.dependencies ELSE <<>>

\* the reference equals the full identifier or the bare identifier of a subtask of root
ResolvesBelow(root, depId) ==
    \E q \in PathsBelow(root) :
        \/ Has(depId, "str") /\ depId.str = FullIdOf(root, q)
        \/ Has(depId, "num") /\ depId.num = findNestedSubtask(root, q).id

\* how many findings name the subtask at path and the reference depId
FindingsFor(errors, root, path, depId) ==
    Cardinality({i \in 1..Len(errors) :
                    /\ errors[i].subtaskId = FullIdOf(root, path)
                    /\ errors[i].invalidDependency = depId})

\* how often the subtask at path lists the reference depId
ListedTimes(root, path, depId) ==
    LET deps == DependencyList(findNestedSubtask(root, path))
    IN  Cardinality({k \in 1..Len(deps) : deps[k] = depId})

ValidateDone == last.op = "validate"

DenotesOutside(roots, root, depId) ==
    IF Has(depId, "num")
    THEN depId.num # root.id /\ \E j \in 1..Len(roots) : roots[j].id = depId.num
    ELSE LET Outside(parsed) ==
                 /\ parsed.ok
                 /\ parsed.parentId # root.id
                 /\ \E j \in 1..Len(roots) :
                       /\ roots[j].id = parsed.parentId
                       /\ findNestedSubtask(roots[j], parsed.path) # null
         IN  Outside(parseSubtaskId(depId.str))

NamesOtherRoot(root, depId) ==
    LET Other(parsed) == parsed.ok /\ parsed.parentId # root.id
    IN  Has(depId, "str") /\ Other(parseSubtaskId(depId.str))

\* some subtask of root has the number as its bare identifier
IsBareIdBelow(root, depId) ==
    /\ Has(depId, "num")
    /\ \E q \in PathsBelow(root) : findNestedSubtask(root, q).id = depId.num

NestedShape(task) ==
    \A i \in 1..Len(Children(task)) : HasSubtasks(Children(task)[i])

MigrateDone == last.op = "migrate"

\* C15: migrate applied to the task it has just returned changes nothing, and migrate
\* applied to a task in nested shape returns it unmodified.
C15_MigrateIdempotent ==
    [][(last'.op = "migrate")
          => LET r == last'.root
             IN  /\ migrateLegacySubtasks(tasks'[r]) = tasks'[r]
                 /\ migrateLegacySubtasks(migrateLegacySubtasks(tasks[r]))
                       = migrateLegacySubtasks(tasks[r])
                 /\ NestedShape(tasks[r]) => tasks'[r] = tasks[r]
                 /\ \A other \in 1..Len(tasks) : other # r => tasks'[other] = tasks[other]]_vars

\* migrate has returned a task whose children all came from the legacy format
C15_Witness ==
    /\ MigrateDone
    /\ LET task == tasks[last.root]
       IN  /\ Len(Children(task)) >= 2
           /\ \A i \in 1..Len(Children(task)) :
                 /\ Children(task)[i].title = "Legacy"
                 /\ HasSubtasks(Children(task)[i])
                 /\ Children(Children(task)[i]) = <<>>

\* C16 as stated: migrate of a task that is not in nested shape leaves every direct
\* child with an explicit child collection, empty where it was lacking, and changes
\* nothing else.
C16_MigrateFillsEveryChild ==
    [][(last'.op = "migrate" /\ ~NestedShape(tasks[last'.root]))
          => LET old == tasks[last'.root]
                 new == tasks'[last'.root]
             IN  /\ NestedShape(new)
                 /\ OwnFields(new) = OwnFields(old)
                 /\ Len(Children(new)) = Len(Children(old))
                 /\ \A i \in 1..Len(Children(old)) :
                       /\ OwnFields(Children(new)[i]) = OwnFields(Children(old)[i])
                       /\ Children(new)[i].subtasks = Children(Children(old)[i])]_vars

(***************************************************************************)
(* The identifier codec (SpecCodec).                                       *)
(***************************************************************************)
GenerateDone == last.op = "generate"

ParseDone == last.op = "parse"

\* C17: for every root identifier r >= 1 and every non-empty path p of positive
\* integers, parse(generate(r, p)) is {rootId: r, path: p}.
C17_ParseInvertsGenerate ==
    (/\ GenerateDone
     /\ last.parentId >= 1
     /\ Len(last.path) >= 1
     /\ \A i \in 1..Len(last.path) : last.path[i] >= 1)
       => /\ last.result.ok
          /\ parseSubtaskId(last.result.value)
                = [ok |-> TRUE, parentId |-> last.parentId, path |-> last.path]

\* an identifier of several segments with numbers of more than one digit was built
C17_Witness ==
    /\ GenerateDone
    /\ last.ok
    /\ last.parentId >= 10
    /\ Len(last.path) >= 2
    /\ last.path[1] >= 10
    /\ \A i \in 1..Len(last.path) : last.path[i] >= 1

\* the segment is a decimal integer from its first to its last character, above zero
IsPositiveDecimal(segment) ==
    /\ Len(segment) >= 1
    /\ \A i \in 1..Len(segment) : IsDigit(segment[i])
    /\ DigitsValue(segment, 0) >= 1

\* C18 as stated: parse fails with MalformedIdentifier for every text without a dot
\* and for every text with a segment that is not entirely a decimal integer, is zero
\* or is negative; it succeeds only when every segment is a positive integer.
C18_ParseRejectsMalformed ==
    ParseDone
       => LET segments == SplitDot(last.subtaskId, <<>>)
              wellFormed == /\ "." \in Range(last.subtaskId)
                            /\ \A i \in 1..Len(segments) : IsPositiveDecimal(segments[i])
          IN  IF wellFormed
              THEN last.result.ok
              ELSE last.result = [ok |-> FALSE, error |-> MalformedIdentifier]

\* C19: generate(r, []) fails with EmptyPath for every r, and generate succeeds for
\* every non-empty path.
C19_GenerateNeedsPath ==
    GenerateDone
       => IF Len(last.path) = 0
          THEN last.result = [ok |-> FALSE, error |-> EmptyPath]
          ELSE /\ last.result.ok
               /\ last.result.value
                     = NumToString(last.parentId) \o <<".">> \o JoinDot(last.path)

\* generate was handed the empty path
C19_Witness ==
    /\ GenerateDone
    /\ last.path = <<>>
    /\ ~last.ok

(***************************************************************************)
(* The container lookup of the navigator (Spec).                           *)
(***************************************************************************)
\* C20 as stated: findContainer fails only when the parent of the target cannot be
\* located; for a path of one segment it returns the root task with its child
\* collection, whether or not the root had one; for a longer path whose prefix
\* resolves it returns that parent with its child collection, created empty if the
\* parent had none.
C20_ContainerFoundWheneverParentIs ==
    \A r \in 1..Len(tasks), path \in PathArgs \cup InsertPathArgs :
        LET root == tasks[r]
            res == findSubtaskParent(root, path)
            parent == findNestedSubtask(root, Front(path))
        IN  /\ Len(path) = 1
                => /\ res.found
                   /\ res.container = <<>>
                   /\ OwnFields(res.task) = OwnFields(root)
                   /\ ContainerSubtasks(res.task, res.container) = Children(root)
            /\ (Len(path) > 1 /\ parent # null)
                => /\ res.found
                   /\ res.container = Front(path)
                   /\ OwnFields(findNestedSubtask(res.task, Front(path))) = OwnFields(parent)
                   /\ ContainerSubtasks(res.task, res.container) = Children(parent)
            /\ ~res.found => (Len(path) > 1 /\ parent = null)

(***************************************************************************)
(* Calls on paths that do not resolve (Spec).                              *)
(***************************************************************************)
\* the owner of the collection the path's last segment belongs to can be located
ContainerResolves(task, path) == Len(path) >= 1 /\ Owner(task, path) # null

\* the lookup by which the code locates that collection: it also needs the root
\* task to have a child collection
ContainerLocated(task, path) == HasSubtasks(task) /\ ContainerResolves(task, path)

NodeNotFound == {NodeNotFoundById, NodeNotFoundAtPath}

FailedWith(record, kinds) == ~record.ok /\ record.error \in kinds

\* C21 as stated: every remove and every update whose path does not resolve fails
\* with NodeNotFound, every insert whose container cannot be resolved fails with
\* ContainerNotFound, and none of them returns a success value.
C21_AsStated ==
    [][LET r == last'.root
           path == last'.path
       IN  /\ (last'.op \in {"remove", "update"}
                  /\ findNestedSubtask(tasks[r], path) = null)
                 => FailedWith(last', NodeNotFound)
           /\ (last'.op = "insert" /\ ~ContainerResolves(tasks[r], path))
                 => FailedWith(last', {ContainerNotFound})]_vars

\* C21: no call on a path that does not resolve returns a success value.  An update
\* fails with NodeNotFound; a remove fails with ContainerNotFound when its container
\* is not located and with NodeNotFound when the container is located but holds no
\* sibling with the last identifier; an insert whose container cannot be resolved
\* fails with ContainerNotFound.  A call that fails had a path that does not resolve
\* (for insert: a container that is not located).
C21_InvalidPathAlwaysFails ==
    [][LET r == last'.root
           path == last'.path
           absent == findNestedSubtask(tasks[r], path) = null
       IN  /\ last'.op = "update"
                 => IF absent THEN FailedWith(last', {NodeNotFoundAtPath}) ELSE last'.ok
           /\ last'.op = "remove"
                 => IF ~absent THEN last'.ok
                    ELSE IF ContainerLocated(tasks[r], path)
                    THEN FailedWith(last', {NodeNotFoundById})
                    ELSE FailedWith(last', {ContainerNotFound})
           /\ last'.op = "insert"
                 => /\ ~ContainerResolves(tasks[r], path)
                         => FailedWith(last', {ContainerNotFound})
                    /\ ~last'.ok => /\ last'.error = ContainerNotFound
                                    /\ ~ContainerLocated(tasks[r], path)]_vars

\* a remove failed because the prefix of its path names no subtask
C21_Witness ==
    /\ last.op = "remove"
    /\ FailedWith(last, {ContainerNotFound})
    /\ Len(last.path) = 2
    /\ HasSubtasks(tasks[last.root])
    /\ findNestedSubtask(tasks[last.root], Front(last.path)) = null

(***************************************************************************)
(* Backups as an append-only store (SpecMig).                              *)
(***************************************************************************)
\* a backup location that holds a copied file
Stored(t) ==
    /\ backups[t] # Missing
    /\ (backups[t].tasks # Missing \/ backups[t].config # Missing)

\* C22 as stated: every backup call stores its copy in a location that no earlier
\* backup used, and no step modifies or replaces what an earlier backup stored,
\* whatever timestamps the clock returns.
C22_BackupNeverOverwrites ==
    [][/\ (last'.op = "createBackup" /\ last'.ok) => ~Stored(last'.backupPath)
       /\ \A t \in 0..MaxClock : Stored(t) => backups'[t] = backups[t]]_vars

\* C23 as stated: a backup in which a copy fails reports failure and leaves no
\* partially filled location behind that restore would accept as a backup.
C23_BackupAllOrNothing ==
    [][(last'.op = "createBackup" /\ ~last'.ok)
          => \A t \in 0..MaxClock :
                backups[t] = Missing
                   => \/ backups'[t] = Missing
                      \/ /\ backups'[t].tasks = Missing
                         /\ backups'[t].config = Missing
                      \/ ~restoreFromBackup(t, "none").ok']_vars

(***************************************************************************)
(* What the migration steps leave in the tasks file (SpecMig).             *)
(***************************************************************************)
\* the step just taken is an attempt of the named migration that succeeded
StepSucceeded(migration) ==
    /\ run.pc = "steps"
    /\ run'.pc = "steps"
    /\ run'.attempts = Append(run.attempts, [name |-> migration, success |-> TRUE])

\* C24 as stated: after the nested-subtasks step reports success no root task of the
\* tasks file is legacy by the state check, so checkMigrationNeeded no longer lists
\* 'nested-subtasks', for every starting document.
C24_StepClearsLegacy ==
    [][StepSucceeded("nested-subtasks")
          => /\ \A i \in 1..Len(tasksFile'.tasks) : ~IsLegacyTask(tasksFile'.tasks[i])
             /\ "nested-subtasks" \notin Range(checkMigrationNeeded')]_vars

\* runMigrations() has returned overall success after a run on the migrations that
\* checkMigrationNeeded listed for a document with a legacy task
DriverSucceededOnLegacy ==
    /\ last.op = "runMigrations"
    /\ last.requested = null
    /\ Has(last, "migrationsToRun")
    /\ "nested-subtasks" \in Range(last.migrationsToRun)
    /\ last.returned.success

\* C25 as stated: after such a run the document's metadata has the nested-subtasks
\* flag set, version 2.0.0 and schema version 2.0, and a migration or update
\* timestamp, whatever metadata the document carried before.
C25_DriverStampsMetadata ==
    DriverSucceededOnLegacy
       => LET meta == MetaOf(tasksFile)
          IN  /\ Has(meta, "nestedSubtasksSupport") /\ meta.nestedSubtasksSupport = TRUE
              /\ Has(meta, "version") /\ meta.version = "2.0.0"
              /\ Has(meta, "schemaVersion") /\ meta.schemaVersion = "2.0"
              /\ Has(meta, "lastMigration") \/ Has(meta, "updatedAt")

(***************************************************************************)
(* Shape of the tree under the mutation engine (Spec).                     *)
(***************************************************************************)
\* the node and every subtask below it has an explicit child collection
RECURSIVE FullyMigrated(_)
FullyMigrated(node) ==
    /\ HasSubtasks(node)
    /\ \A i \in 1..Len(node.subtasks) : FullyMigrated(node.subtasks[i])

AllMigrated(roots) == \A r \in 1..Len(roots) : FullyMigrated(roots[r])

\* C26: from a tree in which the root and every subtask has an explicit child
\* collection, every insert, remove, update and migrate leads to a tree in which
\* every node still has one.
C26_MigratedShapeKept ==
    [][AllMigrated(tasks) => AllMigrated(tasks')]_vars

\* a subtask was inserted below a subtask of a tree that is fully migrated
C26_Witness ==
    /\ AllMigrated(tasks)
    /\ InsertDone
    /\ Len(last.path) = 2
    /\ CountDocument(tasks) >= 4

\* C27 as stated: an insert, remove or update that fails leaves the tree as it was
\* before the call.
C27_FailedCallChangesNothing ==
    [][(last'.op \in {"insert", "remove", "update"} /\ ~last'.ok) => tasks' = tasks]_vars

(***************************************************************************)
(* Conversion of a root task into a subtask (SpecAdd).                     *)
(***************************************************************************)
\* root tasks and subtasks of a document, all counted
CountNodes(roots) == Len(roots) + CountDocument(roots)

\* C28 as stated: a successful conversion of root task T removes exactly T from the
\* root list, gives the container one child with T's title, description, details,
\* status and dependencies, and keeps every subtask T owned beneath that child, so
\* the number of nodes of the document is unchanged.
C28_ConversionKeepsEveryNode ==
    [][(ConversionAsked /\ last'.res.ok)
          => LET at == IndexOfId(tasksFile.tasks, ParseIntArg(last'.existingTaskId).n)
                 T == tasksFile.tasks[at]
                 child == last'.res.returned
                 carried == DOMAIN T \cap {"title", "description", "details", "status",
                                           "dependencies"}
             IN  /\ IdsOf(tasksFile'.tasks) = IdsOf(Splice(tasksFile.tasks, at))
                 /\ \A k \in carried : child[k] = T[k]
                 /\ CountSubtasks(child) = CountSubtasks(T)
                 /\ CountNodes(tasksFile'.tasks) = CountNodes(tasksFile.tasks)]_vars

ProbePaths == PathsUpTo(MaxDepth + 1) \ {<<>>}

\* C30: every entry of flatten(root) has a path on which findNode returns the node
\* the entry describes, and a fullId that parses to the root's identifier and that
\* path; every path on which findNode succeeds is the path of exactly one entry;
\* the fullIds of the entries are pairwise distinct.
C30_FlattenAgreesWithFindNode ==
    (FlattenDone /\ UniqueBelow(tasks[last.root]))
       => LET root == tasks[last.root]
              res == last.result
          IN  /\ \A i \in 1..Len(res) :
                    LET Described(node) ==
                            /\ node # null
                            /\ [k \in DOMAIN node |-> res[i][k]] = node
                        Parsed(parsed) ==
                            /\ parsed.ok
                            /\ parsed.parentId = root.id
                            /\ parsed.path = res[i].path
                    IN  /\ Described(findNestedSubtask(root, res[i].path))
                        /\ Parsed(parseSubtaskId(res[i].fullId))
              /\ \A path \in ProbePaths :
                    findNestedSubtask(root, path) # null
                       => Cardinality({i \in 1..Len(res) : res[i].path = path}) = 1
              /\ Distinct([i \in 1..Len(res) |-> res[i].fullId])

\* a flatten of a tree that inserts have grown to four subtasks on two levels
C30_Witness ==
    /\ FlattenDone
    /\ UniqueBelow(tasks[last.root])
    /\ Len(last.result) = 4
    /\ \E i \in 1..Len(last.result) : last.result[i].depth = 2
    /\ \E i \in 1..Len(last.result) : last.result[i].title = "A"
====
